---------------------------- MODULE Spec2Model ----------------------------
(* willow-db: transactions over a buffer pool, a write-ahead log, a lock   *)
(* table and an undo-only recovery manager.  Every block of the data file  *)
(* is modelled as one integer location; the log is the sequence of         *)
(* records appended to it, with the prefix that is on disk.                *)
EXTENDS Integers, Sequences, FiniteSets, TLC

(***************************************************************************)
(* Bounds of the model.                                                    *)
(***************************************************************************)
MaxTxns == 2
NumBlocks == 1
MaxVal == 1
MaxTs == 3
MaxCrashes == 1
MaxTxnsAfterCrash == 1
MaxLog == 4
capacity == 2
block_size == 64

(***************************************************************************)
(* Program constants.                                                      *)
(***************************************************************************)
SIZE_OF_I32 == 4
FileNameLen == 8
LruK_k == 2

\* Option::None, and usize::MAX (the +infinity backward k-distance).
NONE == -1
USIZE_MAX == 1000000

TxNums == 0 .. (MaxTxns - 1)
Blocks == 1 .. NumBlocks
Vals == 0 .. MaxVal
BufferIds == 0 .. (capacity - 1)

VARIABLES
  disk,          \* data file: block -> contents on disk
  lm,            \* LogManagerInner
  bm,            \* BufferManagerInner (frames, buf_table, free_list, replacer)
  lock_tbl,      \* LockTable.locks : txn -> (block -> Lock)
  cm,            \* ConcurrencyManager.locks : txn -> (block -> LockType)
  txns,          \* Transaction objects by txn_num
  next_txn_num,  \* TransactionManager.next_txn_num
  sys,           \* process state: crashes so far, recovery pending, poisoned
  wrote,         \* history: txn -> (block -> last value it set)
  expected,      \* history: block -> value of the last durable committed writer
  ev,            \* history: what the last step wrote to disk / read / set
  handles,       \* frame handles held by a direct client of the BufferManager
  lg,            \* the log file and LogManagerInner, page by page
  rp,            \* a replacer driven directly, as tests::test_fifo and test_lruk_eviction do
  lw,            \* threads calling the LockTable directly, and their waits
  lk,            \* threads inside BufferManager calls and the locks they hold
  cd,            \* log records as bytes: one written and read back, or those a rollback / recover scans
  ver            \* for each block the LSN of the version last written to disk, and the writes of the last step

vars == <<disk, lm, bm, lock_tbl, cm, txns, next_txn_num, sys, wrote, expected, ev,
          handles, lg, rp, lw, lk, cd, ver>>

(***************************************************************************)
(* Small helpers for maps (HashMap as a function with a finite domain).    *)
(***************************************************************************)
EmptyMap == [x \in {} |-> NONE]

MapPut(m, k, v) == [x \in (DOMAIN m) \cup {k} |-> IF x = k THEN v ELSE m[x]]

MapDel(m, k) == [x \in (DOMAIN m) \ {k} |-> m[x]]

RECURSIVE SumSeq(_)
SumSeq(s) == IF s = <<>> THEN 0 ELSE Head(s) + SumSeq(Tail(s))

RECURSIVE Reverse(_)
Reverse(s) == IF s = <<>> THEN <<>> ELSE Append(Reverse(Tail(s)), Head(s))

(***************************************************************************)
(* Log records (recovery.rs) and their encoded sizes.                      *)
(***************************************************************************)
Checkpoint == [op |-> "checkpoint", txn_num |-> NONE, block |-> NONE, value |-> NONE]

Start(t) == [op |-> "start", txn_num |-> t, block |-> NONE, value |-> NONE]

Commit(t) == [op |-> "commit", txn_num |-> t, block |-> NONE, value |-> NONE]

Rollback(t) == [op |-> "rollback", txn_num |-> t, block |-> NONE, value |-> NONE]

Update(t, b, old) == [op |-> "update", txn_num |-> t, block |-> b, value |-> old]

\* Length of the byte page write_to_log builds for the record.
RecordSize(r) ==
  CASE r.op = "checkpoint" -> SIZE_OF_I32
    [] r.op \in {"start", "commit", "rollback"} -> SIZE_OF_I32 * 2
    [] OTHER -> \* op | txn_num | filename | blk_number | data type | offset | INT value
         SIZE_OF_I32 + SIZE_OF_I32 + (SIZE_OF_I32 + FileNameLen)
           + SIZE_OF_I32 + SIZE_OF_I32 + SIZE_OF_I32 + SIZE_OF_I32

(***************************************************************************)
(* Log manager (log.rs).  lm.log holds every record appended so far, the   *)
(* first lm.durable of them are on disk; lm.cur_start is the number of     *)
(* records in the blocks before current_block.                             *)
(***************************************************************************)
LmNew(oldlog) ==
  [log |-> oldlog.log, durable |-> oldlog.durable, cur_start |-> oldlog.cur_start,
   latest_lsn |-> 0, last_saved_lsn |-> 0, run_start |-> oldlog.durable]

\* The boundary stored in the first 4 bytes of the in-memory log page.
Boundary(l) ==
  block_size
    - SumSeq([i \in 1 .. (Len(l.log) - l.cur_start) |->
                RecordSize(l.log[l.cur_start + i]) + SIZE_OF_I32])

LmInnerFlush(l) ==
  [l EXCEPT !.durable = Len(l.log), !.last_saved_lsn = l.latest_lsn]

LmInnerAppend(l, rec) ==
  LET bytes_needed == RecordSize(rec) + SIZE_OF_I32
      fits == ~(Boundary(l) - bytes_needed < SIZE_OF_I32)
      l1 == IF fits THEN l
            ELSE [LmInnerFlush(l) EXCEPT !.cur_start = Len(l.log)]
  IN [l1 EXCEPT !.log = Append(l.log, rec), !.latest_lsn = l.latest_lsn + 1]

\* A flush that never writes the log page (used to probe the WAL property).
LmFlush_Never(l, lsn) == l

\* A flush that compares the LSN with latest_lsn instead of last_saved_lsn.
LmFlush_AgainstLatest(l, lsn) == IF lsn > l.latest_lsn THEN LmInnerFlush(l) ELSE l

LmFlush(l, lsn) == IF lsn > l.last_saved_lsn THEN LmInnerFlush(l) ELSE l

\* iterator() flushes, then yields every record of the file latest first.
LmIterate(l) == Reverse(LmInnerFlush(l).log)

\* Records of the durable log written since this process started.
DurableThisRun(l) == SubSeq(l.log, l.run_start + 1, l.durable)

(***************************************************************************)
(* LRU-K replacer (replacer.rs), the default eviction policy.              *)
(***************************************************************************)
LruKDefault == [store |-> EmptyMap, current_ts |-> 0, available |-> 0]

LruKNodeDefault == [is_evictable |-> FALSE, history |-> <<>>]

backward_k_distance(node, current_ts) ==
  IF Len(node.history) < LruK_k THEN USIZE_MAX ELSE current_ts - Head(node.history)

least_recent_timestamp(node) == Head(node.history)

LruKRecordAccess(r, key) ==
  LET ts == r.current_ts + 1
      entry == IF key \in DOMAIN r.store THEN r.store[key] ELSE LruKNodeDefault
      pushed == Append(entry.history, ts)
      hist == IF Len(pushed) > LruK_k THEN Tail(pushed) ELSE pushed
  IN [store |-> MapPut(r.store, key, [is_evictable |-> FALSE, history |-> hist]),
      current_ts |-> ts,
      available |-> IF entry.is_evictable THEN r.available - 1 ELSE r.available]

\* A scan that does not look at is_evictable.
LruKVictim_AnyFrame(r) ==
  IF DOMAIN r.store = {} THEN NONE
  ELSE CHOOSE a \in DOMAIN r.store : \A b \in DOMAIN r.store : a <= b

\* The key the scan of evict() ends with: the maximum backward k-distance, ties
\* broken by the smaller oldest timestamp (timestamps are unique per key).
LruKVictim(r) ==
  LET cand == {k \in DOMAIN r.store : r.store[k].is_evictable}
      dist(k) == backward_k_distance(r.store[k], r.current_ts)
      ts(k) == least_recent_timestamp(r.store[k])
      beats(a, b) == dist(a) > dist(b) \/ (dist(a) = dist(b) /\ ts(a) < ts(b))
  IN IF cand = {} THEN NONE
     ELSE CHOOSE a \in cand : \A b \in cand \ {a} : beats(a, b)

LruKEvict(r) ==
  LET key == LruKVictim(r)
  IN IF key = NONE THEN [key |-> NONE, replacer |-> r]
     ELSE [key |-> key,
           replacer |-> [r EXCEPT !.store = MapDel(r.store, key),
                                  !.available = r.available - 1]]

\* set_evictable that flips the flag without keeping the count.
LruKSetEvictable_NoCount(r, key, is_evictable) ==
  IF key \notin DOMAIN r.store THEN r
  ELSE [r EXCEPT !.store = MapPut(r.store, key,
                                  [r.store[key] EXCEPT !.is_evictable = is_evictable])]

LruKSetEvictable(r, key, is_evictable) ==
  IF key \notin DOMAIN r.store THEN r
  ELSE LET e == r.store[key]
       IN [r EXCEPT !.store = MapPut(r.store, key, [e EXCEPT !.is_evictable = is_evictable]),
                    !.available = IF is_evictable /\ ~e.is_evictable THEN r.available + 1
                                  ELSE IF ~is_evictable /\ e.is_evictable THEN r.available - 1
                                  ELSE r.available]

(***************************************************************************)
(* Buffer frames and the buffer pool (buffer/buffer_manager.rs).           *)
(***************************************************************************)
BufferNew == [block |-> NONE, contents |-> 0, txn_num |-> NONE, lsn |-> NONE]

set_modified(buf, txn_num, lsn) ==
  [buf EXCEPT !.txn_num = txn_num, !.lsn = IF lsn # NONE THEN lsn ELSE buf.lsn]

\* Buffer::flush.  panic: the frame is dirty and carries no LSN (lsn.unwrap()).
\* writes: the page writes performed, with the frame's LSN and last_saved_lsn
\* before and at the moment of the write.
BufferFlush(buf, l, d) ==
  IF buf.txn_num = NONE
  THEN [buf |-> buf, lm |-> l, disk |-> d, panic |-> FALSE, writes |-> {}]
  ELSE IF buf.lsn = NONE
  THEN [buf |-> buf, lm |-> l, disk |-> d, panic |-> TRUE, writes |-> {}]
  ELSE LET l2 == LmFlush(l, buf.lsn)
       IN [buf |-> [buf EXCEPT !.txn_num = NONE],
           lm |-> l2,
           disk |-> [d EXCEPT ![buf.block] = buf.contents],
           panic |-> FALSE,
           writes |-> {[block |-> buf.block, lsn |-> buf.lsn,
                        saved_before |-> l.last_saved_lsn,
                        saved |-> l2.last_saved_lsn]}]

assign_to_block(buf, l, d, block) ==
  LET f == BufferFlush(buf, l, d)
  IN [f EXCEPT !.buf = [f.buf EXCEPT !.block = block, !.contents = f.disk[block]]]

BufferManagerNew ==
  [frames |-> [i \in BufferIds |-> BufferNew],
   buf_table |-> EmptyMap,
   free_list |-> [i \in 1 .. capacity |-> i - 1],
   replacer |-> LruKDefault]

\* BufferManagerInner::pin.  pos = NONE: no frame could be found.
BmPin(b, l, d, block) ==
  LET existing == IF block \in DOMAIN b.buf_table THEN b.buf_table[block].pos ELSE NONE
      from_free == existing = NONE /\ b.free_list # <<>>
      ev1 == IF existing = NONE /\ ~from_free THEN LruKEvict(b.replacer)
             ELSE [key |-> NONE, replacer |-> b.replacer]
      pos == IF existing # NONE THEN existing
             ELSE IF from_free THEN b.free_list[Len(b.free_list)]
             ELSE ev1.key
      free2 == IF from_free THEN SubSeq(b.free_list, 1, Len(b.free_list) - 1)
               ELSE b.free_list
  IN IF pos = NONE
     THEN [pos |-> NONE, bm |-> [b EXCEPT !.free_list = free2, !.replacer = ev1.replacer],
           lm |-> l, disk |-> d, panic |-> FALSE, writes |-> {}]
     ELSE LET a == IF existing = NONE THEN assign_to_block(b.frames[pos], l, d, block)
                   ELSE [buf |-> b.frames[pos], lm |-> l, disk |-> d,
                         panic |-> FALSE, writes |-> {}]
              tbl == IF block \in DOMAIN b.buf_table
                     THEN MapPut(b.buf_table, block,
                                 [pos |-> b.buf_table[block].pos,
                                  pins |-> b.buf_table[block].pins + 1])
                     ELSE MapPut(b.buf_table, block, [pos |-> pos, pins |-> 1])
          IN [pos |-> pos,
              bm |-> [frames |-> [b.frames EXCEPT ![pos] = a.buf],
                      buf_table |-> tbl,
                      free_list |-> free2,
                      replacer |-> LruKRecordAccess(ev1.replacer, pos)],
              lm |-> a.lm, disk |-> a.disk, panic |-> a.panic, writes |-> a.writes]

\* BufferManagerInner::unpin, given the frame the handle points to.
BmUnpin(b, pos) ==
  LET block == b.frames[pos].block
  IN IF block \notin DOMAIN b.buf_table THEN b
     ELSE LET e == b.buf_table[block]
              pins == IF e.pins > 0 THEN e.pins - 1 ELSE 0
          IN IF pins > 0
             THEN [b EXCEPT !.buf_table = MapPut(b.buf_table, block, [e EXCEPT !.pins = pins])]
             ELSE [b EXCEPT !.buf_table = MapDel(b.buf_table, block),
                            !.replacer = LruKSetEvictable(b.replacer, e.pos, TRUE)]

available(b) == Len(b.free_list) + b.replacer.available

\* The frames flush_all(txn_num) visits and flushes: those the buffer table
\* names whose modifying transaction is txn_num.
FlushAllTargets(b, txn_num) ==
  {b.buf_table[blk].pos : blk \in {x \in DOMAIN b.buf_table :
                                     b.frames[b.buf_table[x].pos].txn_num = txn_num}}

RECURSIVE FlushFrames(_, _, _, _, _)
FlushFrames(todo, frames, l, d, writes) ==
  IF todo = {} THEN [frames |-> frames, lm |-> l, disk |-> d, writes |-> writes]
  ELSE LET pos == CHOOSE p \in todo : TRUE
           f == BufferFlush(frames[pos], l, d)
       IN FlushFrames(todo \ {pos}, [frames EXCEPT ![pos] = f.buf], f.lm, f.disk,
                      writes \cup f.writes)

\* BufferManagerInner::flush_all.  The buffer table is a hash map: when one of
\* the frames makes flush panic, any subset `before` of the others may have been
\* visited, and flushed, before it.
BmFlushAll(b, l, d, txn_num, before) ==
  LET targets == FlushAllTargets(b, txn_num)
      bad == {p \in targets : b.frames[p].lsn = NONE}
      done == IF bad = {} THEN targets ELSE before
      r == FlushFrames(done, b.frames, l, d, {})
  IN [bm |-> [b EXCEPT !.frames = r.frames], lm |-> r.lm, disk |-> r.disk,
      panic |-> bad # {}, writes |-> r.writes]

FlushAllChoices(b, txn_num) ==
  LET targets == FlushAllTargets(b, txn_num)
      bad == {p \in targets : b.frames[p].lsn = NONE}
  IN IF bad = {} THEN {{}} ELSE SUBSET (targets \ bad)

(***************************************************************************)
(* Lock table (txn/lock_table.rs).  locks : txn_num -> (block -> Lock).    *)
(* A wait ends either because the condition became false or after MAX_TIME *)
(* with the condition still true; the caller holds the concurrency         *)
(* manager's mutex throughout, so no other thread can change the table     *)
(* during the wait and the outcome is decided by the table at the call.    *)
(***************************************************************************)
XLock == [kind |-> "X", n |-> 0]

SLock(n) == [kind |-> "S", n |-> n]

LockOf(map, txn_num, block) ==
  IF txn_num \in DOMAIN map /\ block \in DOMAIN map[txn_num]
  THEN map[txn_num][block] ELSE [kind |-> "none", n |-> 0]

has_x_lock(map, txn_num, block) == LockOf(map, txn_num, block).kind = "X"

has_other_s_locks(map, txn_num, block) ==
  LockOf(map, txn_num, block).kind = "S" /\ LockOf(map, txn_num, block).n > 1

LockInsert(map, txn_num, block, lock) ==
  MapPut(map, txn_num,
         MapPut(IF txn_num \in DOMAIN map THEN map[txn_num] ELSE EmptyMap, block, lock))

LtSLock(map, txn_num, block) ==
  IF has_x_lock(map, txn_num, block) THEN [ok |-> FALSE, locks |-> map]
  ELSE LET cur == LockOf(map, txn_num, block)
           new_val == IF cur.kind = "S" THEN SLock(cur.n + 1) ELSE SLock(1)
       IN [ok |-> TRUE, locks |-> LockInsert(map, txn_num, block, new_val)]

LtXLock(map, txn_num, block) ==
  IF has_other_s_locks(map, txn_num, block) THEN [ok |-> FALSE, locks |-> map]
  ELSE [ok |-> TRUE, locks |-> LockInsert(map, txn_num, block, XLock)]

LtUnlock(map, txn_num, block) ==
  IF txn_num \notin DOMAIN map THEN map
  ELSE LET cur == LockOf(map, txn_num, block)
       IN IF cur.kind = "S" /\ cur.n > 1
          THEN LockInsert(map, txn_num, block, SLock(cur.n - 1))
          ELSE MapPut(map, txn_num, MapDel(map[txn_num], block))

(***************************************************************************)
(* Concurrency manager (txn/concurrency.rs), one instance shared by every  *)
(* transaction behind a mutex.  c : txn_num -> (block -> "S" | "X").       *)
(***************************************************************************)
CmHas(c, txn_num, block) == txn_num \in DOMAIN c /\ block \in DOMAIN c[txn_num]

CmHasXLock(c, txn_num, block) == CmHas(c, txn_num, block) /\ c[txn_num][block] = "X"

\* A concurrency manager that asks the lock table on every read.
CmNeedsSLock_Always(c, txn_num, block) == TRUE

\* s_lock asks the lock table only when the transaction holds no lock on the block.
CmNeedsSLock(c, txn_num, block) == ~CmHas(c, txn_num, block)

CmSLock(c, map, txn_num, block) ==
  LET c1 == IF txn_num \in DOMAIN c THEN c ELSE MapPut(c, txn_num, EmptyMap)
  IN IF ~CmNeedsSLock(c, txn_num, block) THEN [ok |-> TRUE, cm |-> c1, locks |-> map]
     ELSE LET r == LtSLock(map, txn_num, block)
          IN IF r.ok
             THEN [ok |-> TRUE, locks |-> r.locks,
                   cm |-> MapPut(c1, txn_num, MapPut(c1[txn_num], block, "S"))]
             ELSE [ok |-> FALSE, cm |-> c1, locks |-> map]

CmXLock(c, map, txn_num, block) ==
  IF CmHasXLock(c, txn_num, block) THEN [ok |-> TRUE, cm |-> c, locks |-> map]
  ELSE LET s == CmSLock(c, map, txn_num, block)
           x == LtXLock(s.locks, txn_num, block)
       IN IF s.ok /\ x.ok
          THEN [ok |-> TRUE, locks |-> x.locks,
                cm |-> MapPut(s.cm, txn_num, MapPut(s.cm[txn_num], block, "X"))]
          ELSE [ok |-> FALSE, cm |-> s.cm, locks |-> s.locks]

RECURSIVE UnlockAll(_, _, _)
UnlockAll(map, txn_num, blocks) ==
  IF blocks = {} THEN map
  ELSE LET b == CHOOSE x \in blocks : TRUE
       IN UnlockAll(LtUnlock(map, txn_num, b), txn_num, blocks \ {b})

CmRelease(c, map, txn_num) ==
  IF txn_num \in DOMAIN c
  THEN [cm |-> MapDel(c, txn_num), locks |-> UnlockAll(map, txn_num, DOMAIN c[txn_num])]
  ELSE [cm |-> c, locks |-> map]

(***************************************************************************)
(* Transaction and its BufferList (txn/transaction.rs).  The operators     *)
(* below act on a record w of the shared managers plus the acting          *)
(* transaction's buffer list bl = [buffers, pins].                         *)
(*   w.panic = "thread": the calling thread panicked holding no lock;      *)
(*   w.panic = "poison": it panicked holding the pool lock or the          *)
(*                       concurrency manager's mutex, which poisons it.    *)
(***************************************************************************)
BufferListNew == [buffers |-> EmptyMap, pins |-> {}]

World(t) ==
  [disk |-> disk, lm |-> lm, bm |-> bm, locks |-> lock_tbl, cm |-> cm,
   bl |-> txns[t].bl, panic |-> "none", writes |-> {}]

\* BufferList::pin
BlPin(w, block) ==
  LET r == BmPin(w.bm, w.lm, w.disk, block)
  IN IF r.panic THEN [w EXCEPT !.panic = "poison"]
     ELSE IF r.pos = NONE THEN [w EXCEPT !.panic = "thread"]
     ELSE [w EXCEPT !.bm = r.bm, !.lm = r.lm, !.disk = r.disk,
                    !.writes = w.writes \cup r.writes,
                    !.bl = [buffers |-> MapPut(w.bl.buffers, block, r.pos),
                            pins |-> w.bl.pins \cup {block}]]

\* BufferList::unpin
BlUnpin(w, block) ==
  IF block \notin DOMAIN w.bl.buffers THEN w
  ELSE [w EXCEPT !.bm = BmUnpin(w.bm, w.bl.buffers[block]),
                 !.bl = [buffers |-> MapDel(w.bl.buffers, block),
                         pins |-> w.bl.pins \ {block}]]

RECURSIVE UnpinEach(_, _, _)
UnpinEach(b, buffers, blocks) ==
  IF blocks = {} THEN b
  ELSE LET x == CHOOSE y \in blocks : TRUE
       IN UnpinEach(IF x \in DOMAIN buffers THEN BmUnpin(b, buffers[x]) ELSE b,
                    buffers, blocks \ {x})

\* BufferList::unpin_all
BlUnpinAll(w) ==
  [w EXCEPT !.bm = UnpinEach(w.bm, w.bl.buffers, w.bl.pins), !.bl = BufferListNew]

\* RecoveryManager::set_update: the Update record carries the frame's old value.
set_update(l, txn_num, buf) == LmInnerAppend(l, Update(txn_num, buf.block, buf.contents))

\* Transaction::set_value.  The argument of then_some is evaluated whatever
\* ok_to_log is, so set_update appends its record in both cases; only the LSN
\* handed to set_modified depends on ok_to_log.
TxSetValue(w, txn_num, block, v, ok_to_log) ==
  LET x == CmXLock(w.cm, w.locks, txn_num, block)
  IN IF ~x.ok THEN [w EXCEPT !.panic = "poison"]
     ELSE IF block \notin DOMAIN w.bl.buffers
     THEN [w EXCEPT !.cm = x.cm, !.locks = x.locks, !.panic = "thread"]
     ELSE LET pos == w.bl.buffers[block]
              buf == w.bm.frames[pos]
              l2 == set_update(w.lm, txn_num, buf)
              lsn == IF ok_to_log THEN l2.latest_lsn ELSE NONE
              buf2 == set_modified([buf EXCEPT !.contents = v], txn_num, lsn)
          IN [w EXCEPT !.cm = x.cm, !.locks = x.locks, !.lm = l2,
                       !.bm = [w.bm EXCEPT !.frames = [w.bm.frames EXCEPT ![pos] = buf2]]]

\* LogRecord::undo of an Update record: pin, set_value with ok_to_log = false, unpin.
undo(w, txn_num, rec) ==
  IF rec.op # "update" THEN w
  ELSE LET w1 == BlPin(w, rec.block)
           w2 == TxSetValue(w1, txn_num, rec.block, rec.value, FALSE)
       IN IF w1.panic # "none" THEN w1
          ELSE IF w2.panic # "none" THEN w2
          ELSE BlUnpin(w2, rec.block)

\* do_rollback: the records undo is called on, in the order of the iterator.
RECURSIVE RollbackTodo(_, _)
RollbackTodo(itr, txn_num) ==
  IF itr = <<>> THEN <<>>
  ELSE LET record == Head(itr)
       IN IF record.txn_num = txn_num
          THEN IF record.op = "start" THEN <<>>
               ELSE <<record>> \o RollbackTodo(Tail(itr), txn_num)
          ELSE RollbackTodo(Tail(itr), txn_num)

\* A scan of the log that does not stop at a Checkpoint record
RECURSIVE RecoverTodo_PastCheckpoint(_, _)
RecoverTodo_PastCheckpoint(itr, finished_txns) ==
  IF itr = <<>> THEN <<>>
  ELSE LET record == Head(itr)
       IN IF record.op \in {"commit", "rollback"}
          THEN RecoverTodo_PastCheckpoint(Tail(itr), finished_txns \cup {record.txn_num})
          ELSE IF record.txn_num \notin finished_txns
          THEN <<record>> \o RecoverTodo_PastCheckpoint(Tail(itr), finished_txns)
          ELSE RecoverTodo_PastCheckpoint(Tail(itr), finished_txns)

\* do_recover: the records undo is called on, in the order of the iterator.
RECURSIVE RecoverTodo(_, _)
RecoverTodo(itr, finished_txns) ==
  IF itr = <<>> THEN <<>>
  ELSE LET record == Head(itr)
       IN IF record.op = "checkpoint" THEN <<>>
          ELSE IF record.op \in {"commit", "rollback"}
          THEN RecoverTodo(Tail(itr), finished_txns \cup {record.txn_num})
          ELSE IF record.txn_num \notin finished_txns
          THEN <<record>> \o RecoverTodo(Tail(itr), finished_txns)
          ELSE RecoverTodo(Tail(itr), finished_txns)

OnlyUpdates(s) == SelectSeq(s, LAMBDA r : r.op = "update")

(***************************************************************************)
(* State machine.                                                          *)
(*   txns[t].pc: "none" (not created), "active", "recover" (created to run *)
(*   recover), "undo" (inside do_rollback / do_recover), "append",         *)
(*   "flush_log", "release", "unpin_all", "committed", "aborted",          *)
(*   "recovered" (recover returned; the transaction is usable again),      *)
(*   "panicked" (its thread panicked).                                     *)
(***************************************************************************)
TxnNew == [pc |-> "none", kind |-> "none", bl |-> BufferListNew, todo |-> <<>>, lsn |-> NONE]

NoOp == [kind |-> "none", txn_num |-> NONE, block |-> NONE, value |-> NONE]

NoWrote == [t \in TxNums |-> [b \in Blocks |-> NONE]]

Init ==
  /\ disk = [b \in Blocks |-> 0]
  /\ lm = LmNew([log |-> <<>>, durable |-> 0, cur_start |-> 0])
  /\ bm = BufferManagerNew
  /\ lock_tbl = EmptyMap
  /\ cm = EmptyMap
  /\ txns = [t \in TxNums |-> TxnNew]
  /\ next_txn_num = 0
  /\ sys = [crashes |-> 0, need_recovery |-> FALSE, poisoned |-> FALSE]
  /\ wrote = NoWrote
  /\ expected = [b \in Blocks |-> 0]
  /\ ev = [writes |-> {}, op |-> NoOp]
  /\ handles = <<>>
  /\ rp = NONE
  /\ lw = NONE
  /\ lk = NONE
  /\ cd = NONE
  /\ ver = NONE
  /\ lg = NONE

IsActive(t) == txns[t].pc \in {"active", "recovered"}

\* The state after a step of transaction t that left the managers as in w.
Store(w, t, pc, kind, todo, lsn, op) ==
  /\ disk' = w.disk
  /\ lm' = w.lm
  /\ bm' = w.bm
  /\ lock_tbl' = w.locks
  /\ cm' = w.cm
  /\ txns' = [txns EXCEPT ![t] = [pc |-> IF w.panic = "none" THEN pc ELSE "panicked",
                                  kind |-> kind, bl |-> w.bl, todo |-> todo, lsn |-> lsn]]
  /\ sys' = [sys EXCEPT !.poisoned = (w.panic = "poison")]
  /\ ev' = [writes |-> w.writes, op |-> IF w.panic = "none" THEN op ELSE NoOp]
  /\ UNCHANGED <<next_txn_num, expected, handles, lg, rp, lw, lk, cd, ver>>

\* TransactionManager::create_txn and Transaction::new (which logs Start).
\* After a restart the first transaction is the one that runs recover.
CreateTxn ==
  /\ ~sys.poisoned
  /\ next_txn_num < (IF sys.crashes = 0 THEN MaxTxns ELSE MaxTxnsAfterCrash)
  /\ (sys.need_recovery => next_txn_num = 0)
  /\ lm' = LmInnerAppend(lm, Start(next_txn_num))
  /\ txns' = [txns EXCEPT ![next_txn_num] =
                [TxnNew EXCEPT !.pc = IF sys.need_recovery THEN "recover" ELSE "active"]]
  /\ next_txn_num' = next_txn_num + 1
  /\ ev' = [writes |-> {}, op |-> NoOp]
  /\ UNCHANGED <<disk, bm, lock_tbl, cm, sys, wrote, expected, handles, lg, rp, lw, lk, cd, ver>>

\* Transaction::pin
Pin(t, block) ==
  /\ ~sys.poisoned
  /\ IsActive(t)
  /\ bm.replacer.current_ts < MaxTs
  /\ Store(BlPin(World(t), block), t, "active", "none", <<>>, NONE, NoOp)
  /\ UNCHANGED wrote

\* Transaction::unpin (a block the buffer list does not hold is ignored)
Unpin(t, block) ==
  /\ ~sys.poisoned
  /\ IsActive(t)
  /\ block \in DOMAIN txns[t].bl.buffers
  /\ Store(BlUnpin(World(t), block), t, "active", "none", <<>>, NONE, NoOp)
  /\ UNCHANGED wrote

\* Transaction::get_int / get_string on a block the transaction holds
Get(t, block) ==
  /\ ~sys.poisoned
  /\ IsActive(t)
  /\ block \in DOMAIN txns[t].bl.buffers
  /\ LET w == World(t)
         s == CmSLock(w.cm, w.locks, t, block)
         value == w.bm.frames[w.bl.buffers[block]].contents
     IN Store([w EXCEPT !.cm = s.cm, !.locks = s.locks,
                        !.panic = IF s.ok THEN "none" ELSE "poison"],
              t, "active", "none", <<>>, NONE,
              [kind |-> "get", txn_num |-> t, block |-> block, value |-> value])
  /\ UNCHANGED wrote

\* Transaction::set_value on a block the transaction holds
Set(t, block, v, ok_to_log) ==
  /\ ~sys.poisoned
  /\ IsActive(t)
  /\ block \in DOMAIN txns[t].bl.buffers
  /\ Len(lm.log) < MaxLog
  /\ Store(TxSetValue(World(t), t, block, v, ok_to_log), t, "active", "none", <<>>, NONE,
           [kind |-> "set", txn_num |-> t, block |-> block, value |-> v])
  /\ wrote' = [wrote EXCEPT ![t][block] = v]

\* Transaction::commit, first step: RecoveryManager::commit's flush_all
TxCommit(t) ==
  /\ ~sys.poisoned
  /\ IsActive(t)
  /\ \E before \in FlushAllChoices(bm, t) :
       LET r == BmFlushAll(bm, lm, disk, t, before)
       IN Store([World(t) EXCEPT !.bm = r.bm, !.lm = r.lm, !.disk = r.disk,
                                 !.writes = r.writes,
                                 !.panic = IF r.panic THEN "poison" ELSE "none"],
                t, "append", "commit", <<>>, NONE, NoOp)
  /\ UNCHANGED wrote

\* Transaction::rollback, first step: do_rollback opens the log iterator
TxRollback(t) ==
  /\ ~sys.poisoned
  /\ IsActive(t)
  /\ Store([World(t) EXCEPT !.lm = LmInnerFlush(lm)], t, "undo", "rollback",
           OnlyUpdates(RollbackTodo(LmIterate(lm), t)), NONE, NoOp)
  /\ UNCHANGED wrote

\* Transaction::recover up to the opening of the log iterator in do_recover
TxRecover(t) ==
  /\ ~sys.poisoned
  /\ txns[t].pc = "recover"
  /\ \E before \in FlushAllChoices(bm, t) :
       LET r == BmFlushAll(bm, lm, disk, t, before)
       IN Store([World(t) EXCEPT !.bm = r.bm, !.lm = LmInnerFlush(r.lm), !.disk = r.disk,
                                 !.writes = r.writes,
                                 !.panic = IF r.panic THEN "poison" ELSE "none"],
                t, "undo", "recover", OnlyUpdates(RecoverTodo(LmIterate(r.lm), {})),
                NONE, NoOp)
  /\ UNCHANGED wrote

\* One record.undo(txn) of do_rollback / do_recover
Undo(t) ==
  /\ ~sys.poisoned
  /\ txns[t].pc = "undo"
  /\ txns[t].todo # <<>>
  /\ Store(undo(World(t), t, Head(txns[t].todo)), t, "undo", txns[t].kind,
           Tail(txns[t].todo), NONE, NoOp)
  /\ UNCHANGED wrote

\* RecoveryManager::rollback / recover: flush_all after the undo pass
RmFlushAll(t) ==
  /\ ~sys.poisoned
  /\ txns[t].pc = "undo"
  /\ txns[t].todo = <<>>
  /\ \E before \in FlushAllChoices(bm, t) :
       LET r == BmFlushAll(bm, lm, disk, t, before)
       IN Store([World(t) EXCEPT !.bm = r.bm, !.lm = r.lm, !.disk = r.disk,
                                 !.writes = r.writes,
                                 !.panic = IF r.panic THEN "poison" ELSE "none"],
                t, "append", txns[t].kind, <<>>, NONE, NoOp)
  /\ UNCHANGED wrote

EndRecord(kind, t) ==
  CASE kind = "commit" -> Commit(t)
    [] kind = "rollback" -> Rollback(t)
    [] OTHER -> Checkpoint

\* RecoveryManager::commit / rollback / recover: write_to_log of the end record
RmAppend(t) ==
  /\ ~sys.poisoned
  /\ txns[t].pc = "append"
  /\ LET l2 == LmInnerAppend(lm, EndRecord(txns[t].kind, t))
     IN Store([World(t) EXCEPT !.lm = l2], t, "flush_log", txns[t].kind, <<>>,
              l2.latest_lsn, NoOp)
  /\ UNCHANGED wrote

\* RecoveryManager::commit / rollback / recover: lm.flush(lsn)
RmFlushLog(t) ==
  /\ ~sys.poisoned
  /\ txns[t].pc = "flush_log"
  /\ disk' = disk
  /\ lm' = LmFlush(lm, txns[t].lsn)
  /\ txns' = [txns EXCEPT ![t].pc = IF txns[t].kind = "recover" THEN "recovered" ELSE "release",
                          ![t].lsn = NONE]
  /\ sys' = [sys EXCEPT !.need_recovery = IF txns[t].kind = "recover" THEN FALSE ELSE @]
  /\ ev' = [writes |-> {}, op |-> NoOp]
  /\ UNCHANGED <<bm, lock_tbl, cm, next_txn_num, wrote, expected, handles, lg, rp, lw, lk, cd, ver>>

\* Transaction::commit / rollback: ConcurrencyManager::release
TxRelease(t) ==
  /\ ~sys.poisoned
  /\ txns[t].pc = "release"
  /\ LET r == CmRelease(cm, lock_tbl, t)
     IN Store([World(t) EXCEPT !.cm = r.cm, !.locks = r.locks], t, "unpin_all",
              txns[t].kind, <<>>, NONE, NoOp)
  /\ UNCHANGED wrote

\* Transaction::commit / rollback: BufferList::unpin_all, after which the call returns
TxUnpinAll(t) ==
  /\ ~sys.poisoned
  /\ txns[t].pc = "unpin_all"
  /\ Store(BlUnpinAll(World(t)), t,
           IF txns[t].kind = "commit" THEN "committed" ELSE "aborted",
           txns[t].kind, <<>>, NONE, NoOp)
  /\ UNCHANGED wrote

\* The value the claim of durability expects in each block after a crash: that
\* of the last transaction of this run whose Commit record is on disk and that
\* set the block.
RECURSIVE ExpectedAfter(_, _, _)
ExpectedAfter(exp, recs, wr) ==
  IF recs = <<>> THEN exp
  ELSE LET r == Head(recs)
           exp2 == IF r.op = "commit"
                   THEN [b \in Blocks |-> IF wr[r.txn_num][b] # NONE
                                          THEN wr[r.txn_num][b] ELSE exp[b]]
                   ELSE exp
       IN ExpectedAfter(exp2, Tail(recs), wr)

\* The process dies and is started again: only the files survive.
Crash ==
  /\ sys.crashes < MaxCrashes
  /\ disk' = disk
  /\ lm' = LmNew([log |-> SubSeq(lm.log, 1, lm.durable), durable |-> lm.durable,
                  cur_start |-> lm.cur_start])
  /\ bm' = BufferManagerNew
  /\ lock_tbl' = EmptyMap
  /\ cm' = EmptyMap
  /\ txns' = [t \in TxNums |-> TxnNew]
  /\ next_txn_num' = 0
  /\ sys' = [crashes |-> sys.crashes + 1, need_recovery |-> TRUE, poisoned |-> FALSE]
  /\ wrote' = NoWrote
  /\ expected' = ExpectedAfter(expected, DurableThisRun(lm), wrote)
  /\ ev' = [writes |-> {}, op |-> NoOp]
  /\ UNCHANGED <<handles, lg, rp, lw, lk, cd, ver>>

Next ==
  \/ CreateTxn
  \/ \E t \in TxNums, b \in Blocks : Pin(t, b)
  \/ \E t \in TxNums, b \in Blocks : Unpin(t, b)
  \/ \E t \in TxNums, b \in Blocks : Get(t, b)
  \/ \E t \in TxNums, b \in Blocks, v \in 1 .. MaxVal, ok_to_log \in {TRUE} : Set(t, b, v, ok_to_log)
  \/ \E t \in TxNums : TxCommit(t)
  \/ \E t \in TxNums : TxRollback(t)
  \/ \E t \in TxNums : TxRecover(t)
  \/ \E t \in TxNums : Undo(t)
  \/ \E t \in TxNums : RmFlushAll(t)
  \/ \E t \in TxNums : RmAppend(t)
  \/ \E t \in TxNums : RmFlushLog(t)
  \/ \E t \in TxNums : TxRelease(t)
  \/ \E t \in TxNums : TxUnpinAll(t)
  \/ Crash

Spec == Init /\ [][Next]_vars

(***************************************************************************)
(* Properties.                                                             *)
(***************************************************************************)
DirtyBy(t) == {i \in BufferIds : bm.frames[i].txn_num = t}

CommitDurable(t) ==
  \E i \in 1 .. Len(DurableThisRun(lm)) : DurableThisRun(lm)[i] = Commit(t)

\* C1: after a crash, restart and a completed recover(), every block on disk
\* holds the value set by the last transaction whose Commit record was durable
\* (the initial value if there is none); no committed update is lost and no
\* uncommitted update survives.
C1_RecoveredDiskIsCommitted ==
  (sys.crashes > 0 /\ txns[0].pc = "recovered")
    => \A b \in Blocks : disk[b] = expected[b]

\* C2: when commit() has returned for T, no frame modified by T is still
\* unwritten, pinned by T or not, and T's Commit record is on disk.
C2_CommitForcesPages ==
  \A t \in TxNums :
    txns[t].pc = "committed" => (DirtyBy(t) = {} /\ CommitDurable(t))

\* C3: for every block, a transaction holding X in the lock table is the only
\* holder of any lock on that block.
C3_ExclusiveIsAlone ==
  \A b \in Blocks : \A t1 \in TxNums, t2 \in TxNums :
    (t1 # t2 /\ LockOf(lock_tbl, t1, b).kind = "X")
      => LockOf(lock_tbl, t2, b).kind = "none"

\* A transaction that called set_value on the block and has not yet reached
\* the end record of commit or rollback.
ActiveWriter(t, b) ==
  /\ txns[t].pc \in {"active", "recovered", "undo", "append"}
  /\ wrote[t][b] # NONE

\* C4: no get or set_value of a transaction on a block succeeds while another
\* transaction that has set the block is still active.
C4_NoDirtyAccess ==
  ev.op.kind \in {"get", "set"}
    => \A t \in TxNums \ {ev.op.txn_num} : ~ActiveWriter(t, ev.op.block)

\* C5: write-ahead logging: whenever a dirty page is written to disk, the log
\* is on disk at least through the frame's LSN.
C5_WriteAheadLog == \A w \in ev.writes : w.saved >= w.lsn

\* C5 witness: a page write for which the log had to be flushed first.
C5_Witness == \E w \in ev.writes : w.lsn > w.saved_before /\ w.saved >= w.lsn

\* C6: a transaction's Commit record is never on disk while a frame it
\* modified is still unwritten.
C6_CommitRecordAfterPages ==
  \A t \in TxNums : CommitDurable(t) => DirtyBy(t) = {}

\* C7: once every transaction that was started has returned from commit or
\* rollback, the pool counts no pin on any block.
C7_NoPinsAfterEnd ==
  (\A t \in TxNums : txns[t].pc \in {"none", "committed", "aborted"})
    => DOMAIN bm.buf_table = {}

\* C8: after release(T) the lock table holds no lock of T, and a transaction
\* never holds more than one shared hold on a block.
C8_ReleaseLeavesNoLock ==
  /\ \A t \in TxNums :
       txns[t].pc \in {"unpin_all", "committed", "aborted"}
         => \A b \in Blocks : LockOf(lock_tbl, t, b).kind = "none"
  /\ \A t \in TxNums, b \in Blocks : LockOf(lock_tbl, t, b).n <= 1

\* C8 witness: a transaction that read and wrote a block has released its locks.
C8_Witness ==
  \E t \in TxNums, b \in Blocks :
    /\ txns[t].pc = "committed"
    /\ wrote[t][b] # NONE
    /\ LockOf(lock_tbl, t, b).kind = "none"

\* Position in the log of the Start record of t written in this run (0: none).
StartIndex(t) ==
  LET idx == {i \in (lm.run_start + 1) .. Len(lm.log) : lm.log[i] = Start(t)}
  IN IF idx = {} THEN 0 ELSE CHOOSE i \in idx : \A j \in idx : j <= i

UpdatesSince(i, b) ==
  {j \in (i + 1) .. Len(lm.log) : lm.log[j].op = "update" /\ lm.log[j].block = b}

\* The value block b had just before the first write of t to it.
PreImage(t, b) ==
  LET idx == UpdatesSince(StartIndex(t), b)
  IN lm.log[CHOOSE j \in idx : \A k \in idx : j <= k].value

\* C9: after T.rollback() has returned, a transaction reading a block that T
\* (and no transaction but T) has written since T started sees the value the
\* block had before T's first write.
C9_RollbackRestores ==
  ev.op.kind = "get"
    => \A t \in TxNums \ {ev.op.txn_num} :
         ( /\ txns[t].pc = "aborted"
           /\ StartIndex(t) > 0
           /\ UpdatesSince(StartIndex(t), ev.op.block) # {}
           /\ \A j \in UpdatesSince(StartIndex(t), ev.op.block) : lm.log[j].txn_num = t )
         => ev.op.value = PreImage(t, ev.op.block)

\* C10: when recover() returns, the frames its undo pass modified have been
\* flushed: none is still dirty on behalf of the recovering transaction.
C10_RecoverFlushesFrames ==
  \A t \in TxNums : txns[t].pc = "recovered" => DirtyBy(t) = {}

(***************************************************************************)
(* The buffer pool driven directly, as tests::test_buffer and              *)
(* tests::test_buffer_manager drive it: a client pins blocks, keeps the    *)
(* handles, modifies frames through them (logging each change first, as    *)
(* Transaction::set_value does) and unpins each handle once.               *)
(***************************************************************************)
PoolNumBlocks == 3
PoolMaxTs == 5
PoolMaxHandles == 3
PoolMaxLog == 2

\* The transaction number the tests pass to set_modified.
PoolTxn == 1

PoolBlocks == 1 .. PoolNumBlocks

PoolInit ==
  /\ disk = [b \in PoolBlocks |-> 0]
  /\ lm = LmNew([log |-> <<>>, durable |-> 0, cur_start |-> 0])
  /\ bm = BufferManagerNew
  /\ lock_tbl = EmptyMap
  /\ cm = EmptyMap
  /\ txns = [t \in TxNums |-> TxnNew]
  /\ next_txn_num = 0
  /\ sys = [crashes |-> 0, need_recovery |-> FALSE, poisoned |-> FALSE]
  /\ wrote = NoWrote
  /\ expected = [b \in Blocks |-> 0]
  /\ ev = [writes |-> {}, op |-> NoOp]
  /\ handles = <<>>
  /\ rp = NONE
  /\ lw = NONE
  /\ lk = NONE
  /\ cd = NONE
  /\ ver = NONE
  /\ lg = NONE

PoolRest == <<lock_tbl, cm, txns, next_txn_num, sys, wrote, expected, lg, rp, lw, lk, cd, ver>>

PoolOp(kind, block, pos) == [kind |-> kind, block |-> block, pos |-> pos]

RemoveAt(s, i) == SubSeq(s, 1, i - 1) \o SubSeq(s, i + 1, Len(s))

\* BufferManager::pin
PoolPin(block) ==
  /\ bm.replacer.current_ts < PoolMaxTs
  /\ Len(handles) < PoolMaxHandles
  /\ LET r == BmPin(bm, lm, disk, block)
     IN /\ ~r.panic
        /\ bm' = r.bm
        /\ lm' = r.lm
        /\ disk' = r.disk
        /\ handles' = IF r.pos = NONE THEN handles ELSE Append(handles, r.pos)
        /\ ev' = [writes |-> r.writes, op |-> PoolOp("pin", block, r.pos)]
  /\ UNCHANGED PoolRest

\* BufferManager::unpin of the i-th handle the client holds
PoolUnpin(i) ==
  /\ i \in 1 .. Len(handles)
  /\ bm' = BmUnpin(bm, handles[i])
  /\ handles' = RemoveAt(handles, i)
  /\ ev' = [writes |-> {}, op |-> PoolOp("unpin", bm.frames[handles[i]].block, handles[i])]
  /\ UNCHANGED <<disk, lm>>
  /\ UNCHANGED PoolRest

\* The client changes the page behind its i-th handle: log record, new
\* contents, set_modified with the record's LSN.
PoolModify(i, v) ==
  /\ i \in 1 .. Len(handles)
  /\ Len(lm.log) < PoolMaxLog
  /\ LET pos == handles[i]
         buf == bm.frames[pos]
         l2 == set_update(lm, PoolTxn, buf)
     IN /\ lm' = l2
        /\ bm' = [bm EXCEPT !.frames[pos] =
                     set_modified([buf EXCEPT !.contents = v], PoolTxn, l2.latest_lsn)]
        /\ ev' = [writes |-> {}, op |-> PoolOp("modify", buf.block, pos)]
  /\ UNCHANGED <<disk, handles>>
  /\ UNCHANGED PoolRest

\* BufferManager::flush_all
PoolFlushAll ==
  /\ FlushAllTargets(bm, PoolTxn) # {}
  /\ LET r == BmFlushAll(bm, lm, disk, PoolTxn, {})
     IN /\ ~r.panic
        /\ bm' = r.bm
        /\ lm' = r.lm
        /\ disk' = r.disk
        /\ ev' = [writes |-> r.writes, op |-> PoolOp("flush_all", NONE, NONE)]
  /\ UNCHANGED handles
  /\ UNCHANGED PoolRest

PoolNext ==
  \/ \E b \in PoolBlocks : PoolPin(b)
  \/ \E i \in 1 .. PoolMaxHandles : PoolUnpin(i)
  \/ \E i \in 1 .. PoolMaxHandles, v \in 1 .. MaxVal : PoolModify(i, v)
  \/ PoolFlushAll

PoolSpec == PoolInit /\ [][PoolNext]_vars

PinnedFrames == {bm.buf_table[x].pos : x \in DOMAIN bm.buf_table}

EvictableFrames == {k \in DOMAIN bm.replacer.store : bm.replacer.store[k].is_evictable}

FreeFrames == {bm.free_list[i] : i \in 1 .. Len(bm.free_list)}

HoldersOf(b) == {i \in BufferIds : bm.frames[i].block = b}

\* C11: a frame whose block has a pin count > 0 is never handed out by pin for
\* another block (it is neither returned by evict nor reassigned).
C11_PinnedBlockFrameNotTaken ==
  [][ (ev'.op.kind = "pin" /\ ev'.op.pos # NONE)
        => LET old == bm.frames[ev'.op.pos].block
           IN (old # NONE /\ old \in DOMAIN bm.buf_table) => old = ev'.op.block ]_vars

\* C12: at any time at most one frame of the pool holds a given block.
C12_OneFramePerBlock ==
  \A b \in PoolBlocks : Cardinality(HoldersOf(b)) <= 1

\* C13: pin of a block that a frame already holds, pinned or unpinned and not
\* yet evicted, returns that frame, with its contents as they were (no reread
\* from disk).
C13_PinReusesHoldingFrame ==
  [][ (ev'.op.kind = "pin" /\ HoldersOf(ev'.op.block) # {})
        => /\ ev'.op.pos \in HoldersOf(ev'.op.block)
           /\ bm'.frames[ev'.op.pos].contents = bm.frames[ev'.op.pos].contents ]_vars

\* C14: every frame holding a block whose pin count is 0 is evictable in the
\* replacer, and every frame holding a block whose pin count is > 0 is not.
C14_EvictableIffUnpinned ==
  \A i \in BufferIds :
    bm.frames[i].block # NONE
      => (i \in EvictableFrames <=> bm.frames[i].block \notin DOMAIN bm.buf_table)

AllPinned == Cardinality(PinnedFrames) = capacity

\* C15: with every frame pinned, pin of a block that is not resident returns
\* none and changes nothing in the pool or on disk; as soon as a frame is not
\* pinned, the pin succeeds.
C15_PinFullPool ==
  [][ (ev'.op.kind = "pin" /\ ev'.op.block \notin DOMAIN bm.buf_table)
        => IF AllPinned
           THEN ev'.op.pos = NONE /\ bm' = bm /\ disk' = disk /\ lm' = lm
           ELSE ev'.op.pos # NONE ]_vars

\* C15 witness: a pin was refused with every frame pinned.
C15_Witness ==
  ev.op.kind = "pin" /\ ev.op.pos = NONE /\ AllPinned

LogMaxAppends == 4
LogThreads == 2

LogThreadIds == 1 .. LogThreads

\* Lengths of the records the threads append; block_size - 2 * SIZE_OF_I32 is
\* the largest length append accepts.
LogLens == {8, 20, block_size - 2 * SIZE_OF_I32}

LogRest == <<disk, lm, bm, lock_tbl, cm, txns, next_txn_num, sys, wrote, expected, ev, handles, rp, lw, lk, cd, ver>>

\* Page::new: all bytes zero
PageNew == [boundary |-> 0, recs |-> EmptyMap]

\* What get_bytes finds where no record starts: a zero length prefix.
NoRecord == [len |-> 0, tag |-> NONE]

\* Page::set_int(0, n)
set_boundary(p, n) == [p EXCEPT !.boundary = n]

\* The positions of the records of p that share bytes with [pos, pos + size)
Overlapping(p, pos, size) ==
  {q \in DOMAIN p.recs : q < pos + size /\ pos < q + SIZE_OF_I32 + p.recs[q].len}

\* Page::set_bytes
set_bytes(p, pos, rec) ==
  LET kept == [q \in DOMAIN p.recs \ Overlapping(p, pos, SIZE_OF_I32 + rec.len) |-> p.recs[q]]
  IN [p EXCEPT !.recs = MapPut(kept, pos, rec)]

\* Page::get_bytes
get_bytes(p, pos) == IF pos \in DOMAIN p.recs THEN p.recs[pos] ELSE NoRecord

\* FileManager::write
FmWrite(s, block, p) ==
  [s EXCEPT !.file[block + 1] = p,
            !.calls = Append(@, [call |-> "write", block |-> block, page |-> p])]

\* FileManager::append
FmAppend(s) ==
  [s EXCEPT !.file = Append(@, PageNew),
            !.calls = Append(@, [call |-> "append", block |-> Len(s.file), page |-> PageNew])]

\* LogManagerInner::new on an empty log file
LogManagerInner_new ==
  LET s0 == [file |-> <<>>, logpage |-> PageNew, current_block |-> 0,
             latest_lsn |-> 0, last_saved_lsn |-> 0, calls |-> <<>>]
      s1 == FmAppend(s0)
      s2 == [s1 EXCEPT !.logpage = set_boundary(@, block_size)]
  IN FmWrite(s2, 0, s2.logpage)

\* LogManagerInner::flush
LogManagerInner_flush_NoWrite(s) ==
  [s EXCEPT !.last_saved_lsn = s.latest_lsn]

LogManagerInner_flush(s) ==
  [FmWrite(s, s.current_block, s.logpage) EXCEPT !.last_saved_lsn = s.latest_lsn]

\* LogManagerInner::append_new_block
append_new_block(s) ==
  LET block == Len(s.file)
      s1 == FmAppend(s)
      s2 == [s1 EXCEPT !.logpage = set_boundary(@, block_size)]
  IN [FmWrite(s2, block, s2.logpage) EXCEPT !.current_block = block]

\* self.latest_lsn += 1 (a u32; LogMaxAppends keeps it far below 2^32 - 1)
NextLsn_Same(l) == l

NextLsn(l) == l + 1

\* An append that never moves to the next block
DoesNotFit_Never(boundary, bytes_needed) == FALSE

\* The test of LogManagerInner::append for a record that does not fit
DoesNotFit(boundary, bytes_needed) == boundary - bytes_needed < SIZE_OF_I32

\* LogManagerInner::append
LogManagerInner_append(s, rec) ==
  LET bytes_needed == rec.len + SIZE_OF_I32
      s1 == IF DoesNotFit(s.logpage.boundary, bytes_needed)
            THEN append_new_block(LogManagerInner_flush(s))
            ELSE s
      record_pos == s1.logpage.boundary - bytes_needed
  IN [s1 EXCEPT !.logpage = set_boundary(set_bytes(@, record_pos, rec), record_pos),
                !.latest_lsn = NextLsn(@)]

\* The condition under which LogIterator::next yields a record
HasNext_CurrentBlockOnly(current_pos, block) == current_pos < block_size

HasNext(current_pos, block) == current_pos < block_size \/ block > 0

\* LogIterator::next, repeated until it returns None (collect); acc is what
\* was yielded so far.  A position past the end of the page is a panic of
\* Page::get_int.
RECURSIVE LogIteratorCollect(_, _, _, _, _)
LogIteratorCollect(file, block, page, current_pos, acc) ==
  IF HasNext(current_pos, block)
  THEN LET moved == current_pos = block_size
           block2 == IF moved THEN block - 1 ELSE block
           page2 == IF moved THEN file[block2 + 1] ELSE page
           pos2 == IF moved THEN page2.boundary ELSE current_pos
       IN IF pos2 + SIZE_OF_I32 > block_size
          THEN [yielded |-> acc, panic |-> TRUE]
          ELSE LET record == get_bytes(page2, pos2)
               IN LogIteratorCollect(file, block2, page2,
                                     pos2 + SIZE_OF_I32 + record.len, Append(acc, record))
  ELSE [yielded |-> acc, panic |-> FALSE]

\* LogIterator::new (move_to_block) followed by collect
LogIterator(file, block) ==
  LogIteratorCollect(file, block, file[block + 1], file[block + 1].boundary, <<>>)

LogIdle == [kind |-> "idle", block |-> NONE, n |-> NONE, unflushed |-> FALSE]

LogOp(kind, arg, ret, yielded, n) ==
  [kind |-> kind, arg |-> arg, ret |-> ret, yielded |-> yielded, n |-> n]

LogInit ==
  /\ disk = [b \in Blocks |-> 0]
  /\ lm = LmNew([log |-> <<>>, durable |-> 0, cur_start |-> 0])
  /\ bm = BufferManagerNew
  /\ lock_tbl = EmptyMap
  /\ cm = EmptyMap
  /\ txns = [t \in TxNums |-> TxnNew]
  /\ next_txn_num = 0
  /\ sys = [crashes |-> 0, need_recovery |-> FALSE, poisoned |-> FALSE]
  /\ wrote = NoWrote
  /\ expected = [b \in Blocks |-> 0]
  /\ ev = [writes |-> {}, op |-> NoOp]
  /\ handles = <<>>
  /\ rp = NONE
  /\ lw = NONE
  /\ lk = NONE
  /\ cd = NONE
  /\ ver = NONE
  /\ lg = [inner |-> LogManagerInner_new,
           appended |-> <<>>,
           rets |-> <<>>,
           callers |-> {},
           pc |-> [th \in LogThreadIds |-> LogIdle],
           op |-> LogOp("new", NONE, NONE, <<>>, 0)]

\* One operation starts with no file manager call recorded.
LogStart == [lg.inner EXCEPT !.calls = <<>>]

\* LogManager::append by thread th of a record of len bytes, under the write
\* lock.  The tag tells the records apart, as the text "record<i>" of the test;
\* rets are the LSNs returned so far and callers the threads that appended.
LgAppend(th, len) ==
  /\ lg.pc[th] = LogIdle
  /\ Len(lg.appended) < LogMaxAppends
  /\ len + SIZE_OF_I32 + SIZE_OF_I32 <= block_size
  /\ LET rec == [len |-> len, tag |-> Len(lg.appended) + 1]
         s2 == LogManagerInner_append(LogStart, rec)
     IN lg' = [lg EXCEPT !.inner = s2,
                         !.appended = Append(@, rec),
                         !.rets = Append(@, s2.latest_lsn),
                         !.callers = @ \cup {th},
                         !.op = LogOp("append", len, s2.latest_lsn, <<>>, Len(lg.appended))]
  /\ UNCHANGED LogRest

\* The test of LogManager::flush
FlushNeeded_Always(lsn, last_saved_lsn) == TRUE

FlushNeeded(lsn, last_saved_lsn) == lsn > last_saved_lsn

\* LogManager::flush(lsn), first part: last_saved_lsn is read under the read
\* lock; the call returns here when the log is saved through lsn.
LgFlushCheck(th, lsn) ==
  /\ lg.pc[th] = LogIdle
  /\ lsn \in 0 .. lg.inner.latest_lsn + 1
  /\ lg' = [lg EXCEPT !.inner = LogStart,
                      !.pc[th] = IF FlushNeeded(lsn, lg.inner.last_saved_lsn)
                                 THEN [LogIdle EXCEPT !.kind = "flush", !.n = lsn]
                                 ELSE LogIdle,
                      !.op = LogOp("flush_check", lsn, NONE, <<>>, Len(lg.appended))]
  /\ UNCHANGED LogRest

\* LogManager::flush(lsn), second part: the page is written under the write lock.
LgFlushWrite(th) ==
  /\ lg.pc[th].kind = "flush"
  /\ lg' = [lg EXCEPT !.inner = LogManagerInner_flush(LogStart),
                      !.pc[th] = LogIdle,
                      !.op = LogOp("flush", lg.pc[th].n, NONE, <<>>, Len(lg.appended))]
  /\ UNCHANGED LogRest

\* LogManager::iterator, the part under the write lock: flush, and the
\* current block is taken.
LgIterator(th) ==
  /\ lg.pc[th] = LogIdle
  /\ lg' = [lg EXCEPT !.inner = LogManagerInner_flush(LogStart),
                      !.pc[th] = [kind |-> "iter", block |-> lg.inner.current_block,
                                  n |-> Len(lg.appended),
                                  unflushed |-> lg.inner.last_saved_lsn < lg.inner.latest_lsn],
                      !.op = LogOp("iterator", NONE, NONE, <<>>, Len(lg.appended))]
  /\ UNCHANGED LogRest

\* LogIterator::new and the calls of next until None, as get_flushed_records
\* collects them.  Blocks before the starting block are never written again,
\* so only the first read can see the work of other threads.
LgCollect(th) ==
  /\ lg.pc[th].kind = "iter"
  /\ LET r == LogIterator(lg.inner.file, lg.pc[th].block)
     IN lg' = [lg EXCEPT !.inner = LogStart,
                         !.pc[th] = LogIdle,
                         !.op = LogOp(IF r.panic THEN "collect_panic" ELSE "collect",
                                      lg.pc[th].unflushed, NONE, r.yielded, lg.pc[th].n)]
  /\ UNCHANGED LogRest

LogNext ==
  \/ \E th \in LogThreadIds, len \in LogLens : LgAppend(th, len)
  \/ \E th \in LogThreadIds, lsn \in 0 .. LogMaxAppends + 1 : LgFlushCheck(th, lsn)
  \/ \E th \in LogThreadIds : LgFlushWrite(th)
  \/ \E th \in LogThreadIds : LgIterator(th)
  \/ \E th \in LogThreadIds : LgCollect(th)

LogSpec == LogInit /\ [][LogNext]_vars

C19_AppendNewBlockWhenFull ==
  [][ lg'.op.kind = "append"
        => LET bytes_needed == lg'.op.arg + SIZE_OF_I32
               old == lg.inner
               new == lg'.inner
               pos == new.logpage.boundary
           IN /\ get_bytes(new.logpage, pos) = lg'.appended[Len(lg'.appended)]
              /\ IF old.logpage.boundary - bytes_needed < SIZE_OF_I32
                 THEN /\ new.calls =
                           << [call |-> "write", block |-> old.current_block,
                               page |-> old.logpage],
                              [call |-> "append", block |-> Len(old.file), page |-> PageNew],
                              [call |-> "write", block |-> Len(old.file),
                               page |-> [old.logpage EXCEPT !.boundary = block_size]] >>
                      /\ new.current_block = Len(old.file)
                      /\ Len(new.file) = Len(old.file) + 1
                      /\ new.file[old.current_block + 1] = old.logpage
                      /\ new.file[new.current_block + 1].boundary = block_size
                      /\ pos = block_size - bytes_needed
                 ELSE /\ new.calls = <<>>
                      /\ new.file = old.file
                      /\ new.current_block = old.current_block
                      /\ pos = old.logpage.boundary - bytes_needed ]_vars

\* C19 witness: an append moved to a new block after the previous block had
\* been filled exactly (its boundary on disk is 4).
C19_Witness ==
  /\ lg.op.kind = "append"
  /\ Len(lg.inner.calls) = 3
  /\ lg.inner.current_block >= 1
  /\ lg.inner.file[lg.inner.current_block].boundary = SIZE_OF_I32

\* C20: the i-th append to return, whichever thread issued it, returns LSN i:
\* the first returns 1, each next one more, never 0 and never a repeated LSN.
C20_LsnsConsecutive ==
  \A i \in 1 .. Len(lg.rets) : lg.rets[i] = i

\* C20 witness: LogMaxAppends appends returned, issued by more than one
\* thread, the last of them after a move to a new block.
C20_Witness ==
  /\ Len(lg.rets) = LogMaxAppends
  /\ Cardinality(lg.callers) > 1
  /\ lg.op.kind = "append"
  /\ Len(lg.inner.calls) = 3

\* The records of the log file on disk, oldest first.
LogOnDisk(l) == Reverse(LogIterator(l.inner.file, Len(l.inner.file) - 1).yielded)

\* The records with LSN 1 .. lsn are on disk.
SavedThrough(l, lsn) ==
  /\ Len(LogOnDisk(l)) >= lsn
  /\ SubSeq(LogOnDisk(l), 1, lsn) = SubSeq(l.appended, 1, lsn)

\* C21: last_saved_lsn never exceeds latest_lsn, never decreases, and the
\* records up to it are on disk; a flush(lsn) with lsn <= last_saved_lsn
\* returns at once, writes nothing and changes no state; any other flush(lsn)
\* with lsn <= latest_lsn returns with last_saved_lsn >= lsn and every record
\* with LSN <= lsn on disk.
C21_FlushSavesThroughLsn ==
  /\ [](lg.inner.last_saved_lsn <= lg.inner.latest_lsn
          /\ SavedThrough(lg, lg.inner.last_saved_lsn))
  /\ [][ /\ lg'.inner.last_saved_lsn >= lg.inner.last_saved_lsn
         /\ (lg'.op.kind = "flush_check")
              => IF lg'.op.arg <= lg.inner.last_saved_lsn
                 THEN /\ lg'.pc = lg.pc
                      /\ lg'.inner = LogStart
                      /\ lg'.appended = lg.appended
                 ELSE \E th \in LogThreadIds :
                        lg.pc[th].kind = "idle" /\ lg'.pc[th].kind = "flush"
         /\ (lg'.op.kind = "flush" /\ lg'.op.arg <= lg'.inner.latest_lsn)
              => /\ lg'.inner.last_saved_lsn >= lg'.op.arg
                 /\ SavedThrough(lg', lg'.op.arg) ]_vars

\* C21 witness: a flush(lsn) for a record in an earlier block than the
\* current one wrote the page while later records were unsaved.
C21_Witness ==
  /\ lg.op.kind = "flush"
  /\ lg.op.arg >= 1
  /\ lg.op.arg < lg.inner.latest_lsn
  /\ lg.inner.current_block >= 1
  /\ Len(lg.inner.calls) = 1

\* C34: the iterator returns only records that were on disk when iterator()
\* was called: if some appended records were not flushed then, it returns
\* fewer records than had been appended.
C34_IteratorOnlyFlushed ==
  (lg.op.kind = "collect" /\ lg.op.arg = TRUE) => Len(lg.op.yielded) < lg.op.n

(***************************************************************************)
(* A replacer of either policy driven directly, as tests::test_fifo and    *)
(* tests::test_lruk_eviction drive it.                                     *)
(***************************************************************************)
RpNumKeys == 3
RpMaxTs == 6

RpKeys == 1 .. RpNumKeys

RpRest == <<disk, lm, bm, lock_tbl, cm, txns, next_txn_num, sys, wrote, expected, ev,
            handles, lg, lw, lk, cd, ver>>

\* Fifo::default
FifoDefault == [store |-> EmptyMap, available |-> 0]

\* Fifo::record_access
FifoRecordAccess_KeepCount(r, key) ==
  [r EXCEPT !.store = MapPut(r.store, key, FALSE)]

FifoRecordAccess(r, key) ==
  [store |-> MapPut(r.store, key, FALSE),
   available |-> IF key \in DOMAIN r.store /\ r.store[key]
                 THEN r.available - 1 ELSE r.available]

\* The key Fifo::evict finds: store is a BTreeMap, iterated in key order.
FifoVictim(r) ==
  LET cand == {k \in DOMAIN r.store : r.store[k]}
  IN IF cand = {} THEN NONE
     ELSE CHOOSE a \in cand : \A b \in cand : a <= b

\* Fifo::evict
FifoEvict(r) ==
  LET key == FifoVictim(r)
  IN IF key = NONE THEN [key |-> NONE, replacer |-> r]
     ELSE [key |-> key,
           replacer |-> [store |-> MapDel(r.store, key), available |-> r.available - 1]]

\* Fifo::set_evictable
FifoSetEvictable(r, key, is_evictable) ==
  IF key \notin DOMAIN r.store THEN r
  ELSE [store |-> MapPut(r.store, key, is_evictable),
        available |-> IF is_evictable /\ ~r.store[key] THEN r.available + 1
                      ELSE IF ~is_evictable /\ r.store[key] THEN r.available - 1
                      ELSE r.available]

\* The orders in which a HashMap may iterate over the keys S.
RECURSIVE IterationOrders(_)
IterationOrders(S) ==
  IF S = {} THEN {<<>>}
  ELSE UNION {{<<x>> \o p : p \in IterationOrders(S \ {x})} : x \in S}

\* The test of LruK::evict that makes the scanned node the candidate.
LruKTakes_FirstSeen(dist, max_dist, ts, earliest_ts) == dist > max_dist

LruKTakes(dist, max_dist, ts, earliest_ts) ==
  dist > max_dist \/ (dist = max_dist /\ ts < earliest_ts)

\* The loop of LruK::evict over the store in the given iteration order.
RECURSIVE LruKScan(_, _, _, _, _)
LruKScan(r, order, max_dist, earliest_ts, key) ==
  IF order = <<>> THEN key
  ELSE LET k == Head(order)
           node == r.store[k]
           dist == backward_k_distance(node, r.current_ts)
           ts == least_recent_timestamp(node)
       IN IF node.is_evictable /\ ~(dist < max_dist)
               /\ LruKTakes(dist, max_dist, ts, earliest_ts)
          THEN LruKScan(r, Tail(order), dist, ts, k)
          ELSE LruKScan(r, Tail(order), max_dist, earliest_ts, key)

\* LruK::evict with the store iterated in the given order
LruKEvictInOrder(r, order) ==
  LET key == LruKScan(r, order, 0, USIZE_MAX, NONE)
  IN IF key = NONE THEN [key |-> NONE, replacer |-> r]
     ELSE [key |-> key,
           replacer |-> [r EXCEPT !.store = MapDel(r.store, key),
                                  !.available = r.available - 1]]

RpOp(kind, key, flag, ret) == [kind |-> kind, key |-> key, flag |-> flag, ret |-> ret]

\* From<EvictionPolicy> for Box<dyn Replacer>.  inserted lists the keys of the
\* store in the order of their insertion.
RpInit ==
  /\ disk = [b \in Blocks |-> 0]
  /\ lm = LmNew([log |-> <<>>, durable |-> 0, cur_start |-> 0])
  /\ bm = BufferManagerNew
  /\ lock_tbl = EmptyMap
  /\ cm = EmptyMap
  /\ txns = [t \in TxNums |-> TxnNew]
  /\ next_txn_num = 0
  /\ sys = [crashes |-> 0, need_recovery |-> FALSE, poisoned |-> FALSE]
  /\ wrote = NoWrote
  /\ expected = [b \in Blocks |-> 0]
  /\ ev = [writes |-> {}, op |-> NoOp]
  /\ handles = <<>>
  /\ lg = NONE
  /\ lw = NONE
  /\ lk = NONE
  /\ cd = NONE
  /\ ver = NONE
  /\ \E policy \in {"Fifo", "LruK"} :
       rp = [policy |-> policy,
             r |-> IF policy = "Fifo" THEN FifoDefault ELSE LruKDefault,
             inserted |-> <<>>,
             op |-> RpOp("new", NONE, FALSE, NONE)]

\* Replacer::record_access
RpRecordAccess(key) ==
  /\ rp.policy = "LruK" => rp.r.current_ts < RpMaxTs
  /\ rp' = [rp EXCEPT !.r = IF rp.policy = "Fifo" THEN FifoRecordAccess(rp.r, key)
                            ELSE LruKRecordAccess(rp.r, key),
                      !.inserted = IF key \in DOMAIN rp.r.store THEN @ ELSE Append(@, key),
                      !.op = RpOp("record_access", key, FALSE, NONE)]
  /\ UNCHANGED RpRest

\* Replacer::set_evictable
RpSetEvictable(key, is_evictable) ==
  /\ rp' = [rp EXCEPT !.r = IF rp.policy = "Fifo"
                            THEN FifoSetEvictable(rp.r, key, is_evictable)
                            ELSE LruKSetEvictable(rp.r, key, is_evictable),
                      !.op = RpOp("set_evictable", key, is_evictable, NONE)]
  /\ UNCHANGED RpRest

\* Replacer::evict
RpEvict ==
  /\ \E order \in IterationOrders(DOMAIN rp.r.store) :
       LET e == IF rp.policy = "Fifo" THEN FifoEvict(rp.r)
                ELSE LruKEvictInOrder(rp.r, order)
       IN rp' = [rp EXCEPT !.r = e.replacer,
                           !.inserted = SelectSeq(@, LAMBDA k : k # e.key),
                           !.op = RpOp("evict", NONE, FALSE, e.key)]
  /\ UNCHANGED RpRest

RpNext ==
  \/ \E key \in RpKeys : RpRecordAccess(key)
  \/ \E key \in RpKeys, is_evictable \in BOOLEAN : RpSetEvictable(key, is_evictable)
  \/ RpEvict

RpSpec == RpInit /\ [][RpNext]_vars

\* Whether key is flagged evictable in the replacer state r of either policy.
RpIsEvictable(policy, r, key) ==
  /\ key \in DOMAIN r.store
  /\ IF policy = "Fifo" THEN r.store[key] ELSE r.store[key].is_evictable

RpEvictable(policy, r) == {k \in DOMAIN r.store : RpIsEvictable(policy, r, k)}

\* C22: evict() of the FIFO replacer returns the evictable key that was
\* inserted earliest, none when no key is evictable, and leaves every
\* non-evictable entry in the store.
C22_FifoEvictsEarliestInserted ==
  [][ (rp.policy = "Fifo" /\ rp'.op.kind = "evict")
        => LET cand == SelectSeq(rp.inserted, LAMBDA k : rp.r.store[k])
           IN /\ rp'.op.ret = IF cand = <<>> THEN NONE ELSE Head(cand)
              /\ \A k \in DOMAIN rp.r.store :
                   ~rp.r.store[k] => (k \in DOMAIN rp'.r.store /\ ~rp'.r.store[k]) ]_vars

\* C23: evict() of the LRU-K replacer returns none exactly when no entry is
\* evictable, and otherwise the evictable entry with the largest backward
\* k-distance: entries with fewer than k accesses come first, among them the
\* one with the smallest oldest timestamp, otherwise the one whose k-th last
\* access is oldest; this for every order in which the store is iterated.
C23_LruKEvictsMaxDistance ==
  [][ (rp.policy = "LruK" /\ rp'.op.kind = "evict")
        => LET cand == {k \in DOMAIN rp.r.store : rp.r.store[k].is_evictable}
               hist(k) == rp.r.store[k].history
               inf(k) == Len(hist(k)) < LruK_k
               beats(a, b) == \/ inf(a) /\ ~inf(b)
                              \/ inf(a) /\ inf(b) /\ hist(a)[1] < hist(b)[1]
                              \/ ~inf(a) /\ ~inf(b)
                                   /\ hist(a)[Len(hist(a)) - LruK_k + 1]
                                        < hist(b)[Len(hist(b)) - LruK_k + 1]
               ret == rp'.op.ret
           IN /\ (ret = NONE) <=> (cand = {})
              /\ ret # NONE => (ret \in cand /\ \A b \in cand \ {ret} : beats(ret, b)) ]_vars

\* C23 witness: an eviction chose between two evictable entries with fewer
\* than k accesses while a third evictable entry had k accesses.
C23_Witness ==
  /\ rp.policy = "LruK"
  /\ rp.op.kind = "evict"
  /\ rp.op.ret # NONE
  /\ Cardinality({k \in DOMAIN rp.r.store :
                    rp.r.store[k].is_evictable /\ Len(rp.r.store[k].history) < LruK_k}) = 1
  /\ Cardinality({k \in DOMAIN rp.r.store :
                    rp.r.store[k].is_evictable /\ Len(rp.r.store[k].history) = LruK_k}) = 1

\* C24: for both replacers available() is the number of entries flagged
\* evictable and never goes below 0; set_evictable to the value already held
\* leaves the counter, record_access clears the flag, and evict removes the
\* entry it returns and takes one off the counter.
C24_AvailableCountsEvictable ==
  /\ [](rp.r.available = Cardinality(RpEvictable(rp.policy, rp.r)) /\ rp.r.available >= 0)
  /\ [][ /\ (rp'.op.kind = "set_evictable"
              /\ RpIsEvictable(rp.policy, rp.r, rp'.op.key) = rp'.op.flag)
               => rp'.r = rp.r
         /\ rp'.op.kind = "record_access"
               => ~RpIsEvictable(rp.policy, rp'.r, rp'.op.key)
         /\ (rp'.op.kind = "evict" /\ rp'.op.ret # NONE)
               => /\ rp'.op.ret \in RpEvictable(rp.policy, rp.r)
                  /\ rp'.op.ret \notin DOMAIN rp'.r.store
                  /\ rp'.r.available = rp.r.available - 1 ]_vars

\* C24 witness: a FIFO replacer with two evictable entries lost the flag of
\* one of them to record_access and still counts one.
C24_Witness ==
  /\ rp.policy = "Fifo"
  /\ rp.op.kind = "record_access"
  /\ rp.r.available = 1
  /\ Cardinality(DOMAIN rp.r.store) >= 2

(***************************************************************************)
(* The lock table called directly by several threads.  A call holds the    *)
(* table's mutex except while it waits on the condition variable; time is  *)
(* counted in steps of LtTick seconds for the calls that wait.             *)
(***************************************************************************)
LtThreads == 2
LtMaxS == 2
LtTick == 5

\* MAX_TIME, in seconds
MAX_TIME == 10

LtThreadIds == 1 .. LtThreads

LtRest == <<disk, lm, bm, cm, txns, next_txn_num, sys, wrote, expected, ev,
            handles, lg, rp, lk, cd, ver>>

\* LockTable::waiting_too_long
waiting_too_long_Never(elapsed) == FALSE

waiting_too_long(elapsed) == elapsed >= MAX_TIME

\* The condition on which s_lock ("s") and x_lock ("x") wait
LtConflict(map, call, txn_num, block) ==
  IF call = "s" THEN has_x_lock(map, txn_num, block)
  ELSE has_other_s_locks(map, txn_num, block)

LtIdle == [kind |-> "idle", call |-> "none", txn_num |-> NONE, block |-> NONE,
           elapsed |-> 0, waited |-> 0, notified |-> FALSE]

LtOp(kind, call, txn_num, block, ret) ==
  [kind |-> kind, call |-> call, txn_num |-> txn_num, block |-> block, ret |-> ret]

LtInit ==
  /\ disk = [b \in Blocks |-> 0]
  /\ lm = LmNew([log |-> <<>>, durable |-> 0, cur_start |-> 0])
  /\ bm = BufferManagerNew
  /\ lock_tbl = EmptyMap
  /\ cm = EmptyMap
  /\ txns = [t \in TxNums |-> TxnNew]
  /\ next_txn_num = 0
  /\ sys = [crashes |-> 0, need_recovery |-> FALSE, poisoned |-> FALSE]
  /\ wrote = NoWrote
  /\ expected = [b \in Blocks |-> 0]
  /\ ev = [writes |-> {}, op |-> NoOp]
  /\ handles = <<>>
  /\ lg = NONE
  /\ rp = NONE
  /\ lk = NONE
  /\ cd = NONE
  /\ ver = NONE
  /\ lw = [pc |-> [th \in LtThreadIds |-> LtIdle], op |-> LtOp("new", "none", NONE, NONE, "none")]

\* One pass of the loop of s_lock / x_lock with the mutex held, elapsed
\* seconds after the start of the call, and what follows the loop: the
\* thread waits again, or the call returns an error or the lock.
LtAttempt(th, call, txn_num, block, elapsed, kind) ==
  IF LtConflict(lock_tbl, call, txn_num, block) /\ ~waiting_too_long(elapsed)
  THEN /\ lw' = [lw EXCEPT !.pc[th] = [kind |-> "wait", call |-> call, txn_num |-> txn_num,
                                       block |-> block, elapsed |-> elapsed, waited |-> 0,
                                       notified |-> FALSE],
                           !.op = LtOp(kind, call, txn_num, block, "wait")]
       /\ UNCHANGED lock_tbl
  ELSE LET r == IF call = "s" THEN LtSLock(lock_tbl, txn_num, block)
                ELSE LtXLock(lock_tbl, txn_num, block)
       IN /\ lock_tbl' = r.locks
          /\ lw' = [lw EXCEPT !.pc[th] = LtIdle,
                              !.op = LtOp(kind, call, txn_num, block,
                                          IF r.ok THEN "ok" ELSE "err")]

\* LockTable::s_lock / x_lock up to the first wait or the return
LwCall(th, call, txn_num, block) ==
  /\ lw.pc[th].kind = "idle"
  /\ call = "s" => LockOf(lock_tbl, txn_num, block).n < LtMaxS
  /\ LtAttempt(th, call, txn_num, block, 0, "call")
  /\ UNCHANGED LtRest

\* cvar.wait_timeout returns (notified, timed out or woken for no reason)
\* and the loop goes on with the mutex held again.
LwWake(th) ==
  /\ lw.pc[th].kind = "wait"
  /\ LtAttempt(th, lw.pc[th].call, lw.pc[th].txn_num, lw.pc[th].block,
               lw.pc[th].elapsed, "wake")
  /\ UNCHANGED LtRest

\* The wait of th has lasted MAX_TIME: wait_timeout returns.
LwTimeout(th) ==
  /\ lw.pc[th].kind = "wait"
  /\ lw.pc[th].waited >= MAX_TIME
  /\ LwWake(th)

\* LockTable::unlock calls cvar.notify_all() in the arm that removes the
\* entry of the block, not in the arm that lowers a shared count.
UnlockNotifies(map, txn_num, block) ==
  /\ txn_num \in DOMAIN map
  /\ ~(LockOf(map, txn_num, block).kind = "S" /\ LockOf(map, txn_num, block).n > 1)

\* LockTable::unlock
LwUnlock(th, txn_num, block) ==
  /\ lw.pc[th].kind = "idle"
  /\ lock_tbl' = LtUnlock(lock_tbl, txn_num, block)
  /\ lw' = [lw EXCEPT !.op = LtOp("unlock", "none", txn_num, block, "none"),
                      !.pc = [x \in LtThreadIds |->
                                IF lw.pc[x].kind = "wait"
                                     /\ UnlockNotifies(lock_tbl, txn_num, block)
                                THEN [lw.pc[x] EXCEPT !.notified = TRUE]
                                ELSE lw.pc[x]]]
  /\ UNCHANGED LtRest

LtMin(a, b) == IF a < b THEN a ELSE b

\* LtTick seconds pass for the waiting calls; no wait lasts longer than its
\* timeout.  Times are kept up to MAX_TIME, beyond which nothing depends on them.
LwTick ==
  /\ \E th \in LtThreadIds : lw.pc[th].kind = "wait"
  /\ \A th \in LtThreadIds : lw.pc[th].kind = "wait" => lw.pc[th].waited < MAX_TIME
  /\ lw' = [lw EXCEPT !.pc = [th \in LtThreadIds |->
                                IF lw.pc[th].kind = "wait"
                                THEN [lw.pc[th] EXCEPT
                                        !.elapsed = LtMin(@ + LtTick, MAX_TIME),
                                        !.waited = LtMin(@ + LtTick, MAX_TIME)]
                                ELSE lw.pc[th]],
                      !.op = LtOp("tick", "none", NONE, NONE, "none")]
  /\ UNCHANGED lock_tbl
  /\ UNCHANGED LtRest

LtNext ==
  \/ \E th \in LtThreadIds, call \in {"s", "x"}, t \in TxNums, b \in Blocks : LwCall(th, call, t, b)
  \/ \E th \in LtThreadIds : LwWake(th)
  \/ \E th \in LtThreadIds, t \in TxNums, b \in Blocks : LwUnlock(th, t, b)
  \/ LwTick

LtSpec == LtInit /\ [][LtNext]_vars

\* Time passes, and a wait whose timeout has elapsed ends.
LtLiveSpec ==
  /\ LtSpec
  /\ WF_vars(LwTick)
  /\ \A th \in LtThreadIds : WF_vars(LwTimeout(th))

\* C25: every s_lock / x_lock call that waits returns in the end; a call
\* returns the lock only when its conflict condition is false, and returns
\* the error only when the condition holds and MAX_TIME has elapsed since the
\* call, leaving the lock table as it was.
C25_LockCallReturns ==
  /\ [][ /\ lw'.op.ret = "ok"
             => /\ ~LtConflict(lock_tbl, lw'.op.call, lw'.op.txn_num, lw'.op.block)
                /\ LockOf(lock_tbl', lw'.op.txn_num, lw'.op.block).kind
                     = (IF lw'.op.call = "s" THEN "S" ELSE "X")
         /\ lw'.op.ret = "err"
             => /\ LtConflict(lock_tbl, lw'.op.call, lw'.op.txn_num, lw'.op.block)
                /\ lw'.op.kind = "wake"
                /\ \E th \in LtThreadIds :
                     lw.pc[th].kind = "wait" /\ lw'.pc[th].kind = "idle"
                       /\ lw.pc[th].elapsed >= MAX_TIME
                /\ lock_tbl' = lock_tbl ]_vars
  /\ \A th \in LtThreadIds : (lw.pc[th].kind = "wait") ~> (lw.pc[th].kind = "idle")

\* C25 witness: a call that waited returned the error.
C25_Witness ==
  /\ lw.op.kind = "wake"
  /\ lw.op.ret = "err"

\* C32: a waiting call whose wait condition an unlock has made false, be it
\* by lowering a shared count from 2 to 1, has been notified by that unlock,
\* so it goes on without waiting for its timeout.
C32_UnlockWakesWaiters ==
  [][\A th \in LtThreadIds :
       (/\ lw'.op.kind = "unlock"
        /\ lw.pc[th].kind = "wait"
        /\ LtConflict(lock_tbl, lw.pc[th].call, lw.pc[th].txn_num, lw.pc[th].block)
        /\ ~LtConflict(lock_tbl', lw.pc[th].call, lw.pc[th].txn_num, lw.pc[th].block))
       => lw'.pc[th].notified]_vars

\* C36: an unlock of a lock the transaction does not hold is a logic error:
\* the call never returns normally.
C36_UnlockOfUnheldIsError ==
  [][lw'.op.kind = "unlock"
       => LockOf(lock_tbl, lw'.op.txn_num, lw'.op.block).kind # "none"]_vars

(***************************************************************************)
(* Transactions that pin, read and unpin the blocks of a file with more    *)
(* blocks than the pool has frames.                                        *)
(***************************************************************************)
TxPoolNext ==
  \/ CreateTxn
  \/ \E t \in TxNums, b \in PoolBlocks : Pin(t, b)
  \/ \E t \in TxNums, b \in PoolBlocks : Unpin(t, b)
  \/ \E t \in TxNums, b \in PoolBlocks : Get(t, b)

TxPoolSpec == PoolInit /\ [][TxPoolNext]_vars

\* C26: a pin, get or set_value that meets a lock timeout or finds no frame
\* in the pool ends as an abort of its transaction: the thread of the
\* transaction does not panic and the shared managers stay usable.
C26_FailureIsAbort ==
  [][ /\ \A t \in TxNums : txns'[t].pc # "panicked"
      /\ ~sys'.poisoned ]_vars

(***************************************************************************)
(* Callers that go on using a Transaction after its commit: commit takes   *)
(* &mut self, so the object stays available, and no method looks at a      *)
(* state of the transaction.                                               *)
(***************************************************************************)
Ended(t) == txns[t].pc \in {"committed", "aborted"}

\* Transaction::pin called after commit or rollback has returned
EndedPin(t, block) ==
  /\ ~sys.poisoned
  /\ Ended(t)
  /\ bm.replacer.current_ts < MaxTs
  /\ Store(BlPin(World(t), block), t, txns[t].pc, txns[t].kind, <<>>, NONE, NoOp)
  /\ UNCHANGED wrote

\* Transaction::set_value called after commit or rollback has returned
EndedSet(t, block, v) ==
  /\ ~sys.poisoned
  /\ Ended(t)
  /\ block \in DOMAIN txns[t].bl.buffers
  /\ Len(lm.log) < MaxLog
  /\ Store(TxSetValue(World(t), t, block, v, TRUE), t, txns[t].pc, txns[t].kind, <<>>, NONE,
           [kind |-> "set", txn_num |-> t, block |-> block, value |-> v])
  /\ wrote' = [wrote EXCEPT ![t][block] = v]

EndedNext ==
  \/ CreateTxn
  \/ \E t \in TxNums, b \in Blocks : Pin(t, b)
  \/ \E t \in TxNums, b \in Blocks : Unpin(t, b)
  \/ \E t \in TxNums : TxCommit(t)
  \/ \E t \in TxNums : RmAppend(t)
  \/ \E t \in TxNums : RmFlushLog(t)
  \/ \E t \in TxNums : TxRelease(t)
  \/ \E t \in TxNums : TxUnpinAll(t)
  \/ \E t \in TxNums, b \in Blocks : EndedPin(t, b)
  \/ \E t \in TxNums, b \in Blocks, v \in 1 .. MaxVal : EndedSet(t, b, v)

EndedSpec == Init /\ [][EndedNext]_vars

\* C27: once commit or rollback of a transaction has returned, no call on
\* that transaction changes its pins, its locks, a page or the log.
C27_TerminalRefusesOps ==
  [][ \A t \in TxNums :
        Ended(t) => /\ txns'[t].bl = txns[t].bl
                    /\ (ev'.op.txn_num = t => (bm' = bm /\ lm' = lm /\ lock_tbl' = lock_tbl)) ]_vars

(***************************************************************************)
(* The locks of the buffer pool: the RwLock around BufferManagerInner and  *)
(* the RwLock of each frame, taken by threads that pin, unpin and flush.   *)
(* A thread gives unpin the write guard of its frame, so it holds the      *)
(* frame lock when BufferManager::unpin asks for the pool lock.            *)
(***************************************************************************)
LkThreads == 2
LkMaxTs == 4

LkThreadIds == 1 .. LkThreads

LkRest == <<lock_tbl, cm, txns, next_txn_num, sys, wrote, expected, ev, handles, lg, rp, lw,
            cd, ver>>

LkIdle == [kind |-> "idle", pos |-> NONE, block |-> NONE, todo |-> {}]

LkInit ==
  /\ disk = [b \in PoolBlocks |-> 0]
  /\ lm = LmNew([log |-> <<>>, durable |-> 0, cur_start |-> 0])
  /\ bm = BufferManagerNew
  /\ lock_tbl = EmptyMap
  /\ cm = EmptyMap
  /\ txns = [t \in TxNums |-> TxnNew]
  /\ next_txn_num = 0
  /\ sys = [crashes |-> 0, need_recovery |-> FALSE, poisoned |-> FALSE]
  /\ wrote = NoWrote
  /\ expected = [b \in Blocks |-> 0]
  /\ ev = [writes |-> {}, op |-> NoOp]
  /\ handles = <<>>
  /\ lg = NONE
  /\ rp = NONE
  /\ lw = NONE
  /\ cd = NONE
  /\ ver = NONE
  /\ lk = [pool |-> NONE,
           frame |-> [i \in BufferIds |-> NONE],
           pc |-> [th \in LkThreadIds |-> LkIdle],
           held |-> [th \in LkThreadIds |-> {}]]

\* BufferManager::pin: the pool lock is taken.  A block of the buffer table
\* needs no frame lock and the call returns; so does a call that finds no
\* frame.  Otherwise the frame BufferManagerInner::pin found is to be locked.
LkPinPool(th, block) ==
  /\ lk.pc[th] = LkIdle
  /\ lk.pool = NONE
  /\ block \notin {bm.frames[p].block : p \in lk.held[th]}
  /\ bm.replacer.current_ts < LkMaxTs
  /\ LET r == BmPin(bm, lm, disk, block)
     IN IF block \in DOMAIN bm.buf_table \/ r.pos = NONE
        THEN /\ bm' = r.bm
             /\ lk' = [lk EXCEPT !.held[th] = IF r.pos = NONE THEN @ ELSE @ \cup {r.pos}]
        ELSE /\ bm' = bm
             /\ lk' = [lk EXCEPT !.pool = th,
                                 !.pc[th] = [LkIdle EXCEPT !.kind = "pin_frame",
                                                           !.pos = r.pos, !.block = block]]
  /\ UNCHANGED <<disk, lm>>
  /\ UNCHANGED LkRest

\* BufferManagerInner::pin: buf_lock.write() for assign_to_block, the rest
\* of pin, and the pool lock is released.
LkPinFrame(th) ==
  /\ lk.pc[th].kind = "pin_frame"
  /\ lk.frame[lk.pc[th].pos] = NONE
  /\ LET r == BmPin(bm, lm, disk, lk.pc[th].block)
     IN /\ bm' = r.bm
        /\ lm' = r.lm
        /\ disk' = r.disk
        /\ lk' = [lk EXCEPT !.pool = NONE,
                            !.pc[th] = LkIdle,
                            !.held[th] = @ \cup {r.pos}]
  /\ UNCHANGED LkRest

\* BufferList::unpin: buf.write() gives the guard that is the argument of
\* BufferManager::unpin.
LkUnpinFrame(th, pos) ==
  /\ lk.pc[th] = LkIdle
  /\ pos \in lk.held[th]
  /\ lk.frame[pos] = NONE
  /\ lk' = [lk EXCEPT !.frame[pos] = th,
                      !.pc[th] = [LkIdle EXCEPT !.kind = "unpin_pool", !.pos = pos]]
  /\ UNCHANGED <<disk, lm, bm>>
  /\ UNCHANGED LkRest

\* BufferManager::unpin: the pool lock is taken, BufferManagerInner::unpin
\* runs and drops the guard, the pool lock is released.
LkUnpinPool(th) ==
  /\ lk.pc[th].kind = "unpin_pool"
  /\ lk.pool = NONE
  /\ bm' = BmUnpin(bm, lk.pc[th].pos)
  /\ lk' = [lk EXCEPT !.frame[lk.pc[th].pos] = NONE,
                      !.pc[th] = LkIdle,
                      !.held[th] = @ \ {lk.pc[th].pos}]
  /\ UNCHANGED <<disk, lm>>
  /\ UNCHANGED LkRest

\* BufferManager::flush_all: the pool lock is taken; the frames of the
\* buffer table are to be visited.
LkFlushAllPool(th) ==
  /\ lk.pc[th] = LkIdle
  /\ lk.pool = NONE
  /\ bm.buf_table # EmptyMap
  /\ lk' = [lk EXCEPT !.pool = th,
                      !.pc[th] = [LkIdle EXCEPT !.kind = "flush",
                                                !.todo = PinnedFrames]]
  /\ UNCHANGED <<disk, lm, bm>>
  /\ UNCHANGED LkRest

\* BufferManagerInner::flush_all: read() on the next frame of the buffer
\* table, in the order of the HashMap; no frame is modified here, so none
\* is written.  After the last frame BufferManager::flush_all returns and
\* the pool lock is released.
LkFlushFrame(th, pos) ==
  /\ lk.pc[th].kind = "flush"
  /\ pos \in lk.pc[th].todo
  /\ lk.frame[pos] = NONE
  /\ lk' = IF lk.pc[th].todo = {pos}
           THEN [lk EXCEPT !.pool = NONE, !.pc[th] = LkIdle]
           ELSE [lk EXCEPT !.pc[th].todo = @ \ {pos}]
  /\ UNCHANGED <<disk, lm, bm>>
  /\ UNCHANGED LkRest

LkNext ==
  \/ \E th \in LkThreadIds, b \in PoolBlocks : LkPinPool(th, b)
  \/ \E th \in LkThreadIds : LkPinFrame(th)
  \/ \E th \in LkThreadIds, pos \in BufferIds : LkUnpinFrame(th, pos)
  \/ \E th \in LkThreadIds : LkUnpinPool(th)
  \/ \E th \in LkThreadIds : LkFlushAllPool(th)
  \/ \E th \in LkThreadIds, pos \in BufferIds : LkFlushFrame(th, pos)

LkSpec == LkInit /\ [][LkNext]_vars

\* A thread inside a call can take the lock it needs next.
LkCanStep(th) ==
  CASE lk.pc[th].kind = "pin_frame" -> lk.frame[lk.pc[th].pos] = NONE
    [] lk.pc[th].kind = "unpin_pool" -> lk.pool = NONE
    [] lk.pc[th].kind = "flush" -> \E pos \in lk.pc[th].todo : lk.frame[pos] = NONE
    [] OTHER -> FALSE

\* The threads inside calls are all blocked: each waits for a lock that
\* another of them holds.
LkDeadlock ==
  /\ \E th \in LkThreadIds : lk.pc[th].kind # "idle"
  /\ \A th \in LkThreadIds : ~LkCanStep(th)

\* C28: no thread that holds a frame lock waits for the pool lock, and the
\* threads inside pin, unpin and flush_all are never all blocked: one of
\* them can always go on, so each call returns.
C28_NoPoolDeadlock ==
  /\ \A th \in LkThreadIds :
       ~(lk.pc[th].kind = "unpin_pool" /\ lk.pool \notin {NONE, th})
  /\ ~LkDeadlock

\* C29: set_value with ok_to_log = false appends no record and leaves
\* latest_lsn unchanged: an undo step of rollback or recover, which calls
\* set_value(.., false), adds nothing to the log.
C29_UndoAppendsNoRecord ==
  [][\A t \in TxNums :
       (/\ txns[t].pc = "undo"
        /\ txns[t].todo # <<>>
        /\ txns'[t].pc = "undo"
        /\ txns'[t].todo = Tail(txns[t].todo)
        /\ sys'.crashes = sys.crashes
        /\ ~sys'.poisoned)
       => /\ lm'.log = lm.log
          /\ lm'.latest_lsn = lm.latest_lsn]_vars

(***************************************************************************)
(* The bytes of a log record (recovery.rs, file.rs).  A page is a sequence *)
(* of bytes, byte i of the page at index i + 1; a string is the sequence   *)
(* of its code points.  A usize below 2^31 is written as the integer it    *)
(* is, and a usize of 2^64 - 2^31 and more as the negative integer that    *)
(* its 64 bits are in two's complement.                                    *)
(***************************************************************************)
I32_MAX == 2147483647
I32_MIN == -2147483647 - 1

CdUsizes == {0, 1, 258, I32_MAX}
CdI32s == {I32_MIN, -1, 0, 65536, I32_MAX}
CdStrings == {<<>>, <<97>>, <<233, 98>>}
CdFilenames == {<<>>, <<102>>, <<100, 228>>}

CdRest == <<disk, lm, bm, lock_tbl, cm, txns, next_txn_num, sys, wrote, expected, ev,
            handles, lg, rp, lw, lk, ver>>

\* Page::new
Page_new(size) == [i \in 1 .. size |-> 0]

\* The four bytes of a number of 0 .. 2^31 - 1, lowest first.
LowFirst(m) ==
  <<m % 256, (m \div 256) % 256, (m \div 65536) % 256, m \div 16777216>>

\* i32::to_le_bytes: two's complement, so the bytes of a negative n are the
\* complements of the bytes of -(n + 1).
to_le_bytes(n) ==
  IF n >= 0 THEN LowFirst(n)
  ELSE LET c == LowFirst(-(n + 1)) IN [i \in 1 .. SIZE_OF_I32 |-> 255 - c[i]]

from_le_bytes_BigEndian(b) ==
  IF b[1] < 128
  THEN b[4] + 256 * b[3] + 65536 * b[2] + 16777216 * b[1]
  ELSE -((255 - b[4]) + 256 * (255 - b[3]) + 65536 * (255 - b[2])
           + 16777216 * (255 - b[1])) - 1

\* i32::from_le_bytes
from_le_bytes(b) ==
  IF b[4] < 128
  THEN b[1] + 256 * b[2] + 65536 * b[3] + 16777216 * b[4]
  ELSE -((255 - b[1]) + 256 * (255 - b[2]) + 65536 * (255 - b[3])
           + 16777216 * (255 - b[4])) - 1

\* byte_buf.get(offset..offset + len) is Some
InBound(p, offset, len) == offset >= 0 /\ len >= 0 /\ offset + len <= Len(p)

\* Page::get_int, where the four bytes are in bound
get_int(p, offset) == from_le_bytes(SubSeq(p, offset + 1, offset + SIZE_OF_I32))

\* copy_from_slice
CopyFromSlice(p, start, bytes) ==
  [i \in 1 .. Len(p) |->
     IF i > start /\ i <= start + Len(bytes) THEN bytes[i - start] ELSE p[i]]

\* Page::set_int
set_int(p, offset, n) == CopyFromSlice(p, offset, to_le_bytes(n))

\* Page::get_bytes is in bound: the length prefix and the bytes it counts
BytesInBound(p, offset) ==
  /\ InBound(p, offset, SIZE_OF_I32)
  /\ InBound(p, offset + SIZE_OF_I32, get_int(p, offset))

\* Page::get_bytes of the byte page
Page_get_bytes(p, offset) ==
  SubSeq(p, offset + SIZE_OF_I32 + 1, offset + SIZE_OF_I32 + get_int(p, offset))

\* Page::set_bytes of the byte page
Page_set_bytes(p, offset, bytes) ==
  CopyFromSlice(set_int(p, offset, Len(bytes)), offset + SIZE_OF_I32, bytes)

\* UTF-8 of one code point below 2048
Utf8(c) == IF c < 128 THEN <<c>> ELSE <<192 + (c \div 64), 128 + (c % 64)>>

\* str::as_bytes
RECURSIVE as_bytes(_)
as_bytes(s) == IF s = <<>> THEN <<>> ELSE Utf8(Head(s)) \o as_bytes(Tail(s))

REPLACEMENT_CHARACTER == 65533

\* String::from_utf8_lossy on bytes below 224: one byte below 128 is a
\* character, a byte of 194 .. 223 and a continuation byte are a character,
\* any other byte becomes U+FFFD.
RECURSIVE from_utf8_lossy(_)
from_utf8_lossy(b) ==
  IF b = <<>> THEN <<>>
  ELSE IF b[1] < 128 THEN <<b[1]>> \o from_utf8_lossy(Tail(b))
  ELSE IF b[1] >= 194 /\ b[1] <= 223 /\ Len(b) >= 2 /\ b[2] >= 128 /\ b[2] <= 191
  THEN <<(b[1] - 192) * 64 + (b[2] - 128)>> \o from_utf8_lossy(SubSeq(b, 3, Len(b)))
  ELSE <<REPLACEMENT_CHARACTER>> \o from_utf8_lossy(Tail(b))

\* Page::get_string
get_string(p, offset) == from_utf8_lossy(Page_get_bytes(p, offset))

\* Page::set_string
set_string(p, offset, s) == Page_set_bytes(p, offset, as_bytes(s))

\* Page::str_size
str_size(s) == SIZE_OF_I32 + Len(as_bytes(s))

\* usize as i32 keeps the low 32 bits: of a usize below 2^31 the number
\* itself, of a usize of 2^64 - 2^31 and more the negative number written
\* for it.
AsI32(n) == n

\* i32 as usize extends the sign: a negative i32 becomes the usize of
\* 2^64 - 2^31 and more that is written as the same negative number.
AsUsize(n) == n

\* RecordType and UpdateValueType as i32
RecordTypeCode(op) ==
  CASE op = "checkpoint" -> 0
    [] op = "start" -> 1
    [] op = "commit" -> 2
    [] op = "rollback" -> 3
    [] op = "update" -> 4

\* RecordType::try_from
RecordType_try_from(value) ==
  CASE value = 0 -> "checkpoint"
    [] value = 1 -> "start"
    [] value = 2 -> "commit"
    [] value = 3 -> "rollback"
    [] value = 4 -> "update"
    [] OTHER -> "err"

UpdateValueTypeCode(t) == IF t = "INT" THEN 0 ELSE 1

\* UpdateValueType::try_from
UpdateValueType_try_from(value) ==
  CASE value = 0 -> "INT"
    [] value = 1 -> "STRING"
    [] OTHER -> "err"

\* UpdateValue::INT and UpdateValue::STRING
UpdateValue_INT(n) == [data_type |-> "INT", int |-> n, string |-> <<>>]

UpdateValue_STRING(s) == [data_type |-> "STRING", int |-> 0, string |-> s]

NoValue == [data_type |-> "none", int |-> 0, string |-> <<>>]

\* BlockId::new
BlockId_new(filename, block_num) == [filename |-> filename, number |-> block_num]

NoBlock == BlockId_new(<<>>, NONE)

\* enum LogRecord
LogRecord_Checkpoint ==
  [op |-> "checkpoint", txn_num |-> NONE, value |-> NoValue, offset |-> NONE, block |-> NoBlock]

LogRecord_Txn(op, txn_num) ==
  [op |-> op, txn_num |-> txn_num, value |-> NoValue, offset |-> NONE, block |-> NoBlock]

LogRecord_Update(txn_num, value, offset, block) ==
  [op |-> "update", txn_num |-> txn_num, value |-> value, offset |-> offset, block |-> block]

\* What LogRecord::new gives for an unknown record type, and a panic of it
\* (a read out of bound, or the expect on the data type).
LogRecord_None == LogRecord_Txn("none", NONE)

LogRecord_Panic == LogRecord_Txn("panic", NONE)

\* UpdateValue::size
UpdateValue_size(value) ==
  IF value.data_type = "INT" THEN SIZE_OF_I32 ELSE str_size(value.string)

\* LogRecord::write_to_log: the bytes given to LogManager::append
write_to_log(r) ==
  IF r.op = "checkpoint"
  THEN set_int(Page_new(SIZE_OF_I32), 0, RecordTypeCode(r.op))
  ELSE IF r.op \in {"start", "commit", "rollback"}
  THEN set_int(set_int(Page_new(SIZE_OF_I32 * 2), 0, RecordTypeCode(r.op)),
               SIZE_OF_I32, AsI32(r.txn_num))
  ELSE LET tpos == SIZE_OF_I32
           fpos == tpos + SIZE_OF_I32
           bpos == fpos + str_size(r.block.filename)
           dtpos == bpos + SIZE_OF_I32
           opos == dtpos + SIZE_OF_I32
           vpos == opos + SIZE_OF_I32
           p0 == Page_new(vpos + UpdateValue_size(r.value))
           p1 == set_int(p0, 0, RecordTypeCode(r.op))
           p2 == set_int(p1, tpos, AsI32(r.txn_num))
           p3 == set_string(p2, fpos, r.block.filename)
           p4 == set_int(p3, bpos, AsI32(r.block.number))
           p5 == set_int(p4, dtpos, UpdateValueTypeCode(r.value.data_type))
           p6 == set_int(p5, opos, AsI32(r.offset))
       IN IF r.value.data_type = "INT"
          THEN set_int(p6, vpos, r.value.int)
          ELSE set_string(p6, vpos, r.value.string)

\* LogRecord::new, the Update arm
LogRecord_new_Update(p) ==
  LET tpos == SIZE_OF_I32
      txn_num == AsUsize(get_int(p, tpos))
      fpos == tpos + SIZE_OF_I32
      filename == get_string(p, fpos)
      bpos == fpos + str_size(filename)
      block_num == get_int(p, bpos)
      block == BlockId_new(filename, AsUsize(block_num))
      dtpos == bpos + SIZE_OF_I32
      data_type == UpdateValueType_try_from(get_int(p, dtpos))
      opos == dtpos + SIZE_OF_I32
      offset == AsUsize(get_int(p, opos))
      vpos == opos + SIZE_OF_I32
  IN IF ~InBound(p, tpos, SIZE_OF_I32) \/ ~BytesInBound(p, fpos) THEN LogRecord_Panic
     ELSE IF ~InBound(p, bpos, SIZE_OF_I32) \/ ~InBound(p, dtpos, SIZE_OF_I32)
     THEN LogRecord_Panic
     ELSE IF data_type = "err" \/ ~InBound(p, opos, SIZE_OF_I32) THEN LogRecord_Panic
     ELSE IF data_type = "INT"
     THEN IF ~InBound(p, vpos, SIZE_OF_I32) THEN LogRecord_Panic
          ELSE LogRecord_Update(txn_num, UpdateValue_INT(get_int(p, vpos)), offset, block)
     ELSE IF ~BytesInBound(p, vpos) THEN LogRecord_Panic
          ELSE LogRecord_Update(txn_num, UpdateValue_STRING(get_string(p, vpos)), offset,
                                block)

\* LogRecord::new
LogRecord_new(bytes) ==
  IF ~InBound(bytes, 0, SIZE_OF_I32) THEN LogRecord_Panic
  ELSE LET record_type == RecordType_try_from(get_int(bytes, 0))
       IN IF record_type = "err" THEN LogRecord_None
          ELSE IF record_type = "checkpoint" THEN LogRecord_Checkpoint
          ELSE IF record_type = "update" THEN LogRecord_new_Update(bytes)
          ELSE IF ~InBound(bytes, SIZE_OF_I32, SIZE_OF_I32) THEN LogRecord_Panic
          ELSE LogRecord_Txn(record_type, AsUsize(get_int(bytes, SIZE_OF_I32)))

\* The records of each kind over the bounded fields
CdRecords ==
  {LogRecord_Checkpoint}
    \cup {LogRecord_Txn(op, t) : op \in {"start", "commit", "rollback"}, t \in CdUsizes}
    \cup {LogRecord_Update(t, v, o, BlockId_new(f, n)) :
            t \in CdUsizes,
            v \in {UpdateValue_INT(i) : i \in CdI32s}
                    \cup {UpdateValue_STRING(x) : x \in CdStrings},
            o \in CdUsizes, f \in CdFilenames, n \in CdUsizes}

CdInit ==
  /\ disk = [b \in Blocks |-> 0]
  /\ lm = LmNew([log |-> <<>>, durable |-> 0, cur_start |-> 0])
  /\ bm = BufferManagerNew
  /\ lock_tbl = EmptyMap
  /\ cm = EmptyMap
  /\ txns = [t \in TxNums |-> TxnNew]
  /\ next_txn_num = 0
  /\ sys = [crashes |-> 0, need_recovery |-> FALSE, poisoned |-> FALSE]
  /\ wrote = NoWrote
  /\ expected = [b \in Blocks |-> 0]
  /\ ev = [writes |-> {}, op |-> NoOp]
  /\ handles = <<>>
  /\ lg = NONE
  /\ rp = NONE
  /\ lw = NONE
  /\ lk = NONE
  /\ ver = NONE
  /\ \E r \in CdRecords :
       cd = [pc |-> "record", record |-> r, bytes |-> <<>>, read |-> LogRecord_None]

\* record.write_to_log(lm)
CdWriteToLog ==
  /\ cd.pc = "record"
  /\ cd' = [cd EXCEPT !.pc = "bytes", !.bytes = write_to_log(cd.record)]
  /\ UNCHANGED CdRest

\* LogRecord::new(bytes) on the bytes the log gives back
CdNew ==
  /\ cd.pc = "bytes"
  /\ cd' = [cd EXCEPT !.pc = "read", !.read = LogRecord_new(cd.bytes)]
  /\ UNCHANGED CdRest

CdNext == CdWriteToLog \/ CdNew

CdSpec == CdInit /\ [][CdNext]_vars

\* C30: for every record of each kind, with any filename and any txn_num,
\* block number and offset within the i32 range, LogRecord::new of the bytes
\* write_to_log made of the record gives a record equal to it.
C30_DecodeOfEncodeIsRecord ==
  cd.pc = "read" => cd.read = cd.record

\* An Update record with the largest txn_num, a non-ASCII filename and a
\* non-ASCII STRING old value has been written and read back.
C30_Witness ==
  /\ cd.pc = "read"
  /\ cd.record.op = "update"
  /\ cd.record.txn_num = I32_MAX
  /\ cd.record.value.data_type = "STRING"
  /\ cd.record.value.string = <<233, 98>>
  /\ cd.record.block.filename = <<100, 228>>
  /\ cd.record.offset = 258

\* Strength of a lock: none < S < X.
LockRank(kind) == CASE kind = "X" -> 2 [] kind = "S" -> 1 [] OTHER -> 0

\* The kind of lock the concurrency manager records for t on b.
CmKind(c, t, b) == IF CmHas(c, t, b) THEN c[t][b] ELSE "none"

\* The Commit / Rollback record t appended in this run is on disk.
EndRecordDurable(t) ==
  \E i \in (StartIndex(t) + 1) .. lm.durable :
    StartIndex(t) > 0 /\ lm.log[i] = EndRecord(txns[t].kind, t)

\* C31: strict two-phase locking: while the process runs, no lock of a
\* transaction is released or weakened, in the lock table or in the
\* concurrency manager, except by the release of its commit or rollback, and
\* then its Commit / Rollback record is already on disk.
C31_StrictTwoPhase ==
  [][\A t \in TxNums :
       (/\ sys'.crashes = sys.crashes
        /\ \E b \in Blocks :
             \/ LockRank(LockOf(lock_tbl', t, b).kind) < LockRank(LockOf(lock_tbl, t, b).kind)
             \/ LockRank(CmKind(cm', t, b)) < LockRank(CmKind(cm, t, b)))
       => /\ txns[t].pc = "release"
          /\ txns[t].kind \in {"commit", "rollback"}
          /\ EndRecordDurable(t)]_vars

\* C31 witness: a transaction that wrote a block is about to release its X
\* lock, after the flush of its Commit record.
C31_Witness ==
  \E t \in TxNums, b \in Blocks :
    /\ txns[t].pc = "release"
    /\ txns[t].kind = "commit"
    /\ LockOf(lock_tbl, t, b).kind = "X"
    /\ CmKind(cm, t, b) = "X"
    /\ EndRecordDurable(t)

(***************************************************************************)
(* Transactions that write with and without a log record and commit, as    *)
(* tx1 of tests::commit_then_rollback does.                                *)
(***************************************************************************)
UnloggedNext ==
  \/ CreateTxn
  \/ \E t \in TxNums, b \in Blocks : Pin(t, b)
  \/ \E t \in TxNums, b \in Blocks : Unpin(t, b)
  \/ \E t \in TxNums, b \in Blocks, v \in 1 .. MaxVal, ok_to_log \in BOOLEAN :
       Set(t, b, v, ok_to_log)
  \/ \E t \in TxNums : TxCommit(t)
  \/ \E t \in TxNums : RmAppend(t)
  \/ \E t \in TxNums : RmFlushLog(t)
  \/ \E t \in TxNums : TxRelease(t)
  \/ \E t \in TxNums : TxUnpinAll(t)

UnloggedSpec == Init /\ [][UnloggedNext]_vars

\* C33: the flush of a modified frame that has no LSN writes the page and
\* clears the mark without error, so the flush_all of a commit goes through
\* and leaves no frame of the buffer table modified by the transaction.
C33_UnloggedWritesCommit ==
  [][\A t \in TxNums :
       (txns[t].pc = "active" /\ txns'[t].kind = "commit")
         => /\ txns'[t].pc = "append"
            /\ ~sys'.poisoned
            /\ FlushAllTargets(bm', t) = {}]_vars

(***************************************************************************)
(* do_rollback and do_recover over the bytes the log iterator yields,      *)
(* latest record first; some of the records are damaged.  cd holds the     *)
(* records still to come, the records undone and the transactions found    *)
(* finished.                                                               *)
(***************************************************************************)
ScTxn == 1
ScMaxRecords == 3

ScUpdate(t) == write_to_log(LogRecord_Update(t, UpdateValue_INT(0), 0, BlockId_new(<<102>>, 0)))

\* Records as write_to_log makes them, and damaged ones: an unknown record
\* type, an Update cut after its type, and an Update with an unknown data
\* type (the data type of ScUpdate is at offset 17).
ScBytes ==
  {write_to_log(LogRecord_Checkpoint),
   write_to_log(LogRecord_Txn("start", ScTxn)),
   write_to_log(LogRecord_Txn("commit", 0)),
   ScUpdate(ScTxn),
   ScUpdate(0),
   set_int(Page_new(SIZE_OF_I32), 0, 7),
   set_int(Page_new(SIZE_OF_I32), 0, 4),
   set_int(ScUpdate(ScTxn), 17, 9)}

RECURSIVE ScLogs(_)
ScLogs(n) ==
  IF n = 0 THEN {<<>>}
  ELSE ScLogs(n - 1) \cup {<<b>> \o l : b \in ScBytes, l \in ScLogs(n - 1)}

ScInit ==
  /\ disk = [b \in Blocks |-> 0]
  /\ lm = LmNew([log |-> <<>>, durable |-> 0, cur_start |-> 0])
  /\ bm = BufferManagerNew
  /\ lock_tbl = EmptyMap
  /\ cm = EmptyMap
  /\ txns = [t \in TxNums |-> TxnNew]
  /\ next_txn_num = 0
  /\ sys = [crashes |-> 0, need_recovery |-> FALSE, poisoned |-> FALSE]
  /\ wrote = NoWrote
  /\ expected = [b \in Blocks |-> 0]
  /\ ev = [writes |-> {}, op |-> NoOp]
  /\ handles = <<>>
  /\ lg = NONE
  /\ rp = NONE
  /\ lw = NONE
  /\ lk = NONE
  /\ ver = NONE
  /\ \E kind \in {"rollback", "recover"}, itr \in ScLogs(ScMaxRecords) :
       cd = [pc |-> "scan", kind |-> kind, itr |-> itr, met |-> "none",
             undone |-> <<>>, finished_txns |-> {}]

\* LogRecord::new(bytes).expect("valid record") panics
ExpectPanics(record) == record \in {LogRecord_None, LogRecord_Panic}

\* One pass of the loop of do_rollback
ScRollback ==
  /\ cd.pc = "scan"
  /\ cd.kind = "rollback"
  /\ cd.itr # <<>>
  /\ LET record == LogRecord_new(Head(cd.itr))
     IN cd' = IF ExpectPanics(record)
              THEN [cd EXCEPT !.pc = "panicked", !.met = record.op]
              ELSE IF record.txn_num # ScTxn THEN [cd EXCEPT !.itr = Tail(@)]
              ELSE IF record.op = "start" THEN [cd EXCEPT !.pc = "flush_all"]
              ELSE [cd EXCEPT !.itr = Tail(@), !.undone = Append(@, record)]
  /\ UNCHANGED CdRest

\* One pass of the loop of do_recover
ScRecover ==
  /\ cd.pc = "scan"
  /\ cd.kind = "recover"
  /\ cd.itr # <<>>
  /\ LET record == LogRecord_new(Head(cd.itr))
     IN cd' = IF ExpectPanics(record)
              THEN [cd EXCEPT !.pc = "panicked", !.met = record.op]
              ELSE IF record.op = "checkpoint" THEN [cd EXCEPT !.pc = "flush_all"]
              ELSE IF record.op \in {"commit", "rollback"}
              THEN [cd EXCEPT !.itr = Tail(@), !.finished_txns = @ \cup {record.txn_num}]
              ELSE IF record.txn_num \notin cd.finished_txns
              THEN [cd EXCEPT !.itr = Tail(@), !.undone = Append(@, record)]
              ELSE [cd EXCEPT !.itr = Tail(@)]
  /\ UNCHANGED CdRest

\* The iterator returns None: the loop ends
ScExhausted ==
  /\ cd.pc = "scan"
  /\ cd.itr = <<>>
  /\ cd' = [cd EXCEPT !.pc = "flush_all"]
  /\ UNCHANGED CdRest

\* RecoveryManager::rollback / recover after the loop: flush_all, the
\* Rollback / Checkpoint record, the flush of the log
ScFinish ==
  /\ cd.pc = "flush_all"
  /\ cd' = [cd EXCEPT !.pc = "done"]
  /\ UNCHANGED CdRest

ScNext == ScRollback \/ ScRecover \/ ScExhausted \/ ScFinish

ScSpec == ScInit /\ [][ScNext]_vars

\* C35: rollback and recover take a record with an unknown type or a payload
\* that cannot be decoded as the end of the log and complete; they never
\* crash.
C35_DamagedRecordEndsScan == cd.pc # "panicked"

(***************************************************************************)
(* The versions of a block that reach the disk.  Every modification of the *)
(* pool's client is logged, so the LSN of a modified frame names the       *)
(* version of the block the frame holds; ver.disk_lsn[b] is the LSN of the *)
(* version of b written last (0: the block as created).                    *)
(***************************************************************************)
VsRest == <<lock_tbl, cm, txns, next_txn_num, sys, wrote, expected, ev, lg, rp, lw, lk, cd>>

VsInit ==
  /\ disk = [b \in PoolBlocks |-> 0]
  /\ lm = LmNew([log |-> <<>>, durable |-> 0, cur_start |-> 0])
  /\ bm = BufferManagerNew
  /\ lock_tbl = EmptyMap
  /\ cm = EmptyMap
  /\ txns = [t \in TxNums |-> TxnNew]
  /\ next_txn_num = 0
  /\ sys = [crashes |-> 0, need_recovery |-> FALSE, poisoned |-> FALSE]
  /\ wrote = NoWrote
  /\ expected = [b \in Blocks |-> 0]
  /\ ev = [writes |-> {}, op |-> NoOp]
  /\ handles = <<>>
  /\ lg = NONE
  /\ rp = NONE
  /\ lw = NONE
  /\ lk = NONE
  /\ cd = NONE
  /\ ver = [disk_lsn |-> [b \in PoolBlocks |-> 0], writes |-> {}]

\* The versions on disk after the page writes of one call; a call writes a
\* block at most once.
VsWritten(writes) ==
  [disk_lsn |-> [b \in PoolBlocks |->
                   IF \E w \in writes : w.block = b
                   THEN (CHOOSE w \in writes : w.block = b).lsn
                   ELSE ver.disk_lsn[b]],
   writes |-> writes]

\* BufferManager::pin
VsPin(block) ==
  /\ bm.replacer.current_ts < PoolMaxTs
  /\ Len(handles) < PoolMaxHandles
  /\ LET r == BmPin(bm, lm, disk, block)
     IN /\ ~r.panic
        /\ bm' = r.bm
        /\ lm' = r.lm
        /\ disk' = r.disk
        /\ handles' = IF r.pos = NONE THEN handles ELSE Append(handles, r.pos)
        /\ ver' = VsWritten(r.writes)
  /\ UNCHANGED VsRest

\* BufferManager::unpin of the i-th handle the client holds
VsUnpin(i) ==
  /\ i \in 1 .. Len(handles)
  /\ bm' = BmUnpin(bm, handles[i])
  /\ handles' = RemoveAt(handles, i)
  /\ ver' = VsWritten({})
  /\ UNCHANGED <<disk, lm>>
  /\ UNCHANGED VsRest

\* The client changes the page behind its i-th handle: log record, new
\* contents, set_modified with the record's LSN.
VsModify(i, v) ==
  /\ i \in 1 .. Len(handles)
  /\ Len(lm.log) < PoolMaxLog
  /\ LET pos == handles[i]
         buf == bm.frames[pos]
         l2 == set_update(lm, PoolTxn, buf)
     IN /\ lm' = l2
        /\ bm' = [bm EXCEPT !.frames[pos] =
                     set_modified([buf EXCEPT !.contents = v], PoolTxn, l2.latest_lsn)]
  /\ ver' = VsWritten({})
  /\ UNCHANGED <<disk, handles>>
  /\ UNCHANGED VsRest

\* BufferManager::flush_all, as commit calls it
VsFlushAll ==
  /\ FlushAllTargets(bm, PoolTxn) # {}
  /\ LET r == BmFlushAll(bm, lm, disk, PoolTxn, {})
     IN /\ ~r.panic
        /\ bm' = r.bm
        /\ lm' = r.lm
        /\ disk' = r.disk
        /\ ver' = VsWritten(r.writes)
  /\ UNCHANGED handles
  /\ UNCHANGED VsRest

VsNext ==
  \/ \E b \in PoolBlocks : VsPin(b)
  \/ \E i \in 1 .. PoolMaxHandles : VsUnpin(i)
  \/ \E i \in 1 .. PoolMaxHandles, v \in 1 .. MaxVal : VsModify(i, v)
  \/ VsFlushAll

VsSpec == VsInit /\ [][VsNext]_vars

\* C37: a page write never puts an older version of a block on disk: the
\* version a flush writes is at least as late as the version of the block
\* that was on disk before.
C37_NoOlderVersionWritten ==
  [][\A w \in ver'.writes : w.lsn >= ver.disk_lsn[w.block]]_vars


\* The pins the transactions record for a block (BufferList.pins is a set, so
\* each transaction records at most one)
RecordedPins(block) == Cardinality({t \in TxNums : block \in txns[t].bl.pins})

\* C38: the pins the transactions record for a block equal the pins the pool
\* counts for it, so a block pinned k times stays held until k unpins.
C38_RecordedPinsEqualPoolPins ==
  \A block \in DOMAIN bm.buf_table :
    bm.buf_table[block].pins = RecordedPins(block)


\* The bytes of page p from pos to the end of the block are a whole number of
\* length-prefixed records: following the length prefixes from pos, each at the
\* start of a record that was appended, ends exactly at block_size.
RECURSIVE WholeRecords(_, _)
WholeRecords(p, pos) ==
  IF pos = block_size THEN TRUE
  ELSE /\ pos \in DOMAIN p.recs
       /\ pos + SIZE_OF_I32 + p.recs[pos].len <= block_size
       /\ WholeRecords(p, pos + SIZE_OF_I32 + p.recs[pos].len)

WellFormedPage(p) ==
  /\ SIZE_OF_I32 <= p.boundary
  /\ p.boundary <= block_size
  /\ WholeRecords(p, p.boundary)

\* C40: the boundary b of every log block, on disk and in the log page, has
\* 4 <= b <= block_size, the bytes from b to the end are a whole number of
\* length-prefixed records (none reaches into the boundary field), every block
\* but the last holds a record, and the iterator never reads at or past
\* block_size.
C40_LogBlocksWellFormed ==
  /\ \A i \in 1 .. Len(lg.inner.file) : WellFormedPage(lg.inner.file[i])
  /\ WellFormedPage(lg.inner.logpage)
  /\ \A i \in 1 .. (Len(lg.inner.file) - 1) : lg.inner.file[i].boundary < block_size
  /\ lg.op.kind # "collect_panic"

\* The log has three blocks, one before the last holds two records, and an
\* iterator has read all four records back to the first block.
C40_Witness ==
  /\ Len(lg.inner.file) >= 3
  /\ \E i \in 1 .. (Len(lg.inner.file) - 1) :
       LET p == lg.inner.file[i]
       IN p.boundary + SIZE_OF_I32 + get_bytes(p, p.boundary).len < block_size
  /\ lg.op.kind = "collect"
  /\ Len(lg.op.yielded) = LogMaxAppends

(***************************************************************************)
(* Repeated and interrupted recovery.  The process may die again while     *)
(* recover() runs, and recover() may be called again once it has returned. *)
(* `expected` holds the files as the crash that made recovery necessary    *)
(* left them: expected.disk and expected.lm, the log manager of a process  *)
(* started on the log file.                                                *)
(***************************************************************************)
RcMaxCrashes == 3
RcMaxLog == 9

\* do_recover's loop over the records it undoes
RECURSIVE UndoAll(_, _, _)
UndoAll(w, txn_num, todo) ==
  IF todo = <<>> \/ w.panic # "none" THEN w
  ELSE UndoAll(undo(w, txn_num, Head(todo)), txn_num, Tail(todo))

\* create_txn and Transaction::recover run to the end in a process started on
\* disk d and log file l
RecoverOutcome(d, l) ==
  LET l1 == LmInnerAppend(l, Start(0))
      w == [disk |-> d, lm |-> LmInnerFlush(l1), bm |-> BufferManagerNew,
            locks |-> EmptyMap, cm |-> EmptyMap, bl |-> BufferListNew,
            panic |-> "none", writes |-> {}]
      w2 == UndoAll(w, 0, OnlyUpdates(RecoverTodo(LmIterate(l1), {})))
      r == BmFlushAll(w2.bm, w2.lm, w2.disk, 0, {})
  IN IF w2.panic # "none" \/ r.panic THEN [b \in Blocks |-> NONE] ELSE r.disk

\* The process dies: once while transactions run, then again only while
\* recovery is under way.
RcCrash ==
  /\ sys.crashes < RcMaxCrashes
  /\ sys.crashes = 0 \/ sys.need_recovery
  /\ disk' = disk
  /\ lm' = LmNew([log |-> SubSeq(lm.log, 1, lm.durable), durable |-> lm.durable,
                  cur_start |-> lm.cur_start])
  /\ bm' = BufferManagerNew
  /\ lock_tbl' = EmptyMap
  /\ cm' = EmptyMap
  /\ txns' = [t \in TxNums |-> TxnNew]
  /\ next_txn_num' = 0
  /\ sys' = [crashes |-> sys.crashes + 1, need_recovery |-> TRUE, poisoned |-> FALSE]
  /\ wrote' = NoWrote
  /\ expected' = IF sys.need_recovery THEN expected ELSE [disk |-> disk', lm |-> lm']
  /\ ev' = [writes |-> {}, op |-> NoOp]
  /\ UNCHANGED <<handles, lg, rp, lw, lk, cd, ver>>

\* Transaction::recover called again by the transaction whose recover() has
\* just returned
RcRecoverAgain(t) ==
  /\ ~sys.poisoned
  /\ txns[t].pc = "recovered"
  /\ Len(lm.log) < RcMaxLog
  /\ txns' = [txns EXCEPT ![t].pc = "recover"]
  /\ ev' = [writes |-> {}, op |-> NoOp]
  /\ UNCHANGED <<disk, lm, bm, lock_tbl, cm, next_txn_num, sys, wrote, expected,
                 handles, lg, rp, lw, lk, cd, ver>>

\* Transactions run until the first crash; after it the process only recovers.
RcWork ==
  /\ sys.crashes = 0
  /\ \/ \E t \in TxNums, b \in Blocks : Pin(t, b)
     \/ \E t \in TxNums, b \in Blocks : Unpin(t, b)
     \/ \E t \in TxNums, b \in Blocks, v \in 1 .. MaxVal : Set(t, b, v, TRUE)
     \/ \E t \in TxNums : TxCommit(t)
     \/ \E t \in TxNums : TxRollback(t)
     \/ \E t \in TxNums : TxRelease(t)
     \/ \E t \in TxNums : TxUnpinAll(t)

RcNext ==
  \/ CreateTxn
  \/ RcWork
  \/ \E t \in TxNums : TxRecover(t)
  \/ \E t \in TxNums : Undo(t)
  \/ \E t \in TxNums : RmFlushAll(t)
  \/ \E t \in TxNums : RmAppend(t)
  \/ \E t \in TxNums : RmFlushLog(t)
  \/ RcCrash
  \/ \E t \in TxNums : RcRecoverAgain(t)

RcInit ==
  /\ disk = [b \in Blocks |-> 0]
  /\ lm = LmNew([log |-> <<>>, durable |-> 0, cur_start |-> 0])
  /\ bm = BufferManagerNew
  /\ lock_tbl = EmptyMap
  /\ cm = EmptyMap
  /\ txns = [t \in TxNums |-> TxnNew]
  /\ next_txn_num = 0
  /\ sys = [crashes |-> 0, need_recovery |-> FALSE, poisoned |-> FALSE]
  /\ wrote = NoWrote
  /\ expected = [disk |-> disk, lm |-> lm]
  /\ ev = [writes |-> {}, op |-> NoOp]
  /\ handles = <<>>
  /\ rp = NONE
  /\ lw = NONE
  /\ lk = NONE
  /\ cd = NONE
  /\ ver = NONE
  /\ lg = NONE

RcSpec == RcInit /\ [][RcNext]_vars

\* The steps recover() takes, from Transaction::recover's flush_all to the
\* flush of the Checkpoint record
RecoverStep(t) ==
  /\ txns[t].kind = "recover" \/ txns[t].pc = "recover"
  /\ txns[t].pc \in {"recover", "undo", "append", "flush_log"}
  /\ txns'[t] # txns[t]
  /\ sys'.crashes = sys.crashes

\* C39: a recover() run again after a completed recover() changes no page, on
\* disk or in the pool; and a recover() that completes, whether or not earlier
\* runs of it were cut short by a crash, leaves on disk what an uninterrupted
\* recover() leaves.
C39_RecoverIdempotentRestartable ==
  [][\A t \in TxNums :
       RecoverStep(t) =>
         /\ ~sys.need_recovery => (disk' = disk /\ bm'.frames = bm.frames)
         /\ txns'[t].pc = "recovered"
              => LET outcome == RecoverOutcome(expected.disk, expected.lm)
                 IN outcome # [b \in Blocks |-> NONE] => disk' = outcome]_vars

\* recover() has completed, and has been run once more, in a process started
\* after an earlier recover() was cut short by a crash: the Start record of the
\* earlier process, on disk since its do_recover opened the log iterator, is
\* followed by the Start record of this one.  There was an update to undo, and
\* the value to restore differs from the one on disk.
C39_Witness ==
  /\ sys.crashes >= 2
  /\ txns[0].pc = "recovered"
  /\ Len(lm.log) >= 2
  /\ lm.log[Len(lm.log)] = Checkpoint
  /\ lm.log[Len(lm.log) - 1] = Checkpoint
  /\ \E i \in (Len(expected.lm.log) + 1) .. Len(lm.log) :
       /\ lm.log[i] = Start(0)
       /\ \E j \in (i + 1) .. Len(lm.log) : lm.log[j] = Start(0)
  /\ \E i \in 1 .. Len(expected.lm.log) :
       /\ lm.log[i].op = "update"
       /\ lm.log[i].value # disk[lm.log[i].block]
  /\ RecoverOutcome(expected.disk, expected.lm) # [b \in Blocks |-> NONE]

=============================================================================
